---- MODULE Spec2Model ----
(***************************************************************************)
(* A model of the NovelAI lorebook helper: the phrase algebra of           *)
(* matching.js, the Fixed and DepthDelta configuration strategies, and the *)
(* recursive entry builder (yieldChildKeys, entriesByText,                 *)
(* entriesByChildren, yieldEntries, buildEntries).                         *)
(*                                                                         *)
(* Text is modelled as a sequence of tokens (strings), so that string      *)
(* concatenation is \o and a template literal is a concatenation of its    *)
(* pieces.  An object with optional properties is a function whose domain  *)
(* holds the properties that are defined; the spread {...a, ...b} is       *)
(* Merge(a, b).                                                            *)
(***************************************************************************)
EXTENDS Naturals, Integers, Sequences, FiniteSets, TLC

(***************************************************************************)
(* Bounds of the explored inputs.                                          *)
(***************************************************************************)
\* Entries (root entries and sub-entries together) in one builder config.
MaxNodes == 4
\* Most own keys of one entry.
MaxKeys == 3
\* Most strings in a text list.
MaxTexts == 3
\* Distinct words the phrases of a call of matching.js are made of.
MaxWords == 2
\* Largest number given in a range or distance of NEAR and BEYOND.
MaxRange == 2
\* Most characters of a string given to REGEX.
MaxChars == 4
\* Most characters of a text that a compiled key is searched in.
MaxTextLen == 4
\* Most strategies on the strategyStack when apply or extend is called on
\* its own.
MaxStack == 2

(***************************************************************************)
(* utils: objects with optional properties.                                *)
(***************************************************************************)
\* The empty object {}.
EmptyObj == <<>>

\* { ...a, ...b }
Merge(a, b) ==
  [k \in (DOMAIN a) \cup (DOMAIN b) |-> IF k \in DOMAIN b THEN b[k] ELSE a[k]]

\* const { [key]: _, ...rest } = obj
Without(obj, key) == [k \in (DOMAIN obj) \ {key} |-> obj[k]]

\* obj.key when defined, otherwise an empty object (spreading undefined
\* adds nothing).
PropOrEmpty(obj, key) == IF key \in DOMAIN obj THEN obj[key] ELSE EmptyObj

\* An object holding `key` only when `value` is a non-empty object; this is
\* how an undefined property disappears under dropUndefProps.
PropIf(cond, key, value) == IF cond THEN key :> value ELSE EmptyObj

\* asArray, on a text that is absent (the default []), a single string or a
\* list of strings.  A text string is identified by the entry it was written
\* in and its position there.
asArray(path, text) ==
  CASE text.kind = "absent" -> <<>>
    [] text.kind = "scalar" -> << [node |-> path, pos |-> 1] >>
    [] OTHER -> [i \in 1..text.n |-> [node |-> path, pos |-> i]]

\* iterPosition: pairs every item with its zero-based position.
iterPosition(arr) == [i \in 1..Len(arr) |-> <<i - 1, arr[i]>>]

\* iterReverse without a count.
iterReverse(arr) == [i \in 1..Len(arr) |-> arr[Len(arr) + 1 - i]]

(***************************************************************************)
(* matching.js: the phrase algebra.                                        *)
(***************************************************************************)
\* All characters.
AC == <<"[\\s\\S]">>
\* Word boundary.
B == <<"\\b">>
\* Not word or line-break.
NWLB == <<"[^\\w\\n]">>
\* Open ended.
OE == <<"\\w*?">>

\* The characters escapeRegExp puts a backslash before.
RegExpSpecials == {".", "*", "+", "?", "^", "$", "{", "}", "(", ")", "|", "[", "]", "\\"}

RECURSIVE escapeRegExp(_)
escapeRegExp(value) ==
  IF value = <<>> THEN <<>>
  ELSE (IF Head(value) \in RegExpSpecials THEN <<"\\", Head(value)>> ELSE <<Head(value)>>)
       \o escapeRegExp(Tail(value))

\* A phrase is one of
\*   [kind |-> "string",  word |-> chars]
\*   [kind |-> "regexp",  source |-> tokens, flags |-> tokens]
\*   [kind |-> "escaped", pattern |-> tokens]
\*   [kind |-> "exp",     left |-> phrase, op |-> operator, right |-> phrase]
toEscaped(pattern) == [kind |-> "escaped", pattern |-> pattern]

\* Mutant of toNAI: the key is emitted without a flag.
toNAIWithoutFlag(escaped) == <<"/">> \o escaped.pattern \o <<"/">>

\* EscapedRegex.toNAI()
toNAI(escaped) == <<"/">> \o escaped.pattern \o <<"/i">>

isEscaped(value) == value.kind = "escaped"

isPhraseExp(value) == value.kind = "exp"

LIT(word) == toEscaped(B \o escapeRegExp(word) \o B)

PRE(word) == toEscaped(B \o escapeRegExp(word))

POST(word) == toEscaped(OE \o escapeRegExp(word) \o B)

OPEN(word) == toEscaped(OE \o escapeRegExp(word))

\* Join the patterns of a list of escaped phrases with "|".
RECURSIVE JoinAlt(_)
JoinAlt(alternates) ==
  IF alternates = <<>> THEN <<>>
  ELSE IF Len(alternates) = 1 THEN alternates[1].pattern
  ELSE alternates[1].pattern \o <<"|">> \o JoinAlt(Tail(alternates))

\* Operators are named by tags; an extended operator (NEAR, BEYOND) is a
\* factory that evalExp calls without arguments.
BinaryOperators == {"AND", "EXCLUDING", "WITH", "WITHOUT"}

RECURSIVE asEscaped(_)
RECURSIVE evalExp(_)
RECURSIVE ALT(_)
RECURSIVE AND(_, _)
RECURSIVE EXCLUDING(_, _)
RECURSIVE WITH_(_, _)
RECURSIVE WITHOUT(_, _)
RECURSIVE ApplyMatcher(_, _, _)

\* Mutant of asEscaped: an escaped phrase is converted like a word again.
asEscapedRewrapping(phrase) ==
  IF phrase.kind = "regexp" THEN toEscaped(phrase.source)
  ELSE IF isPhraseExp(phrase) THEN evalExp(phrase)
  ELSE IF isEscaped(phrase) THEN toEscaped(B \o phrase.pattern)
  ELSE PRE(phrase.word)

asEscaped(phrase) ==
  IF phrase.kind = "regexp" THEN toEscaped(phrase.source)
  ELSE IF isPhraseExp(phrase) THEN evalExp(phrase)
  ELSE IF isEscaped(phrase) THEN phrase
  ELSE PRE(phrase.word)

ALT(alternates) ==
  LET escaped == [i \in 1..Len(alternates) |-> asEscaped(alternates[i])]
  IN  toEscaped(<<"(?:">> \o JoinAlt(escaped) \o <<")">>)

\* Mutant of AND: the right phrase is looked for after the left one only.
ANDAheadOnly(left, right) ==
  LET reLeft == asEscaped(left).pattern
      reRight == asEscaped(right).pattern
      ahead == <<"(?=">> \o AC \o <<"*?">> \o reRight \o <<")">>
  IN  toEscaped(reLeft \o ahead)

AND(left, right) ==
  LET reLeft == asEscaped(left).pattern
      reRight == asEscaped(right).pattern
      ahead == <<"(?=">> \o AC \o <<"*?">> \o reRight \o <<")">>
      behind == <<"(?<=">> \o reRight \o AC \o <<"*?">> \o reLeft \o <<")">>
  IN  toEscaped(reLeft \o <<"(?:">> \o ahead \o <<"|">> \o behind \o <<")">>)

\* Mutant of EXCLUDING: the text before the left phrase is matched as part
\* of the pattern instead of being looked behind at.
EXCLUDINGConsuming(left, right) ==
  LET reLeft == asEscaped(left).pattern
      reRight == asEscaped(right).pattern
      ahead == <<"(?!">> \o AC \o <<"*?">> \o reRight \o <<")">>
      behind == <<"(?:">> \o reRight \o AC \o <<"*?">> \o reLeft \o <<")">>
  IN  toEscaped(reLeft \o ahead \o behind)

EXCLUDING(left, right) ==
  LET reLeft == asEscaped(left).pattern
      reRight == asEscaped(right).pattern
      ahead == <<"(?!">> \o AC \o <<"*?">> \o reRight \o <<")">>
      behind == <<"(?<!">> \o reRight \o AC \o <<"*?">> \o reLeft \o <<")">>
  IN  toEscaped(reLeft \o ahead \o behind)

\* exports.WITH (WITH is a reserved word of TLA+)
WITH_(left, right) ==
  LET reLeft == asEscaped(left).pattern
      reRight == asEscaped(right).pattern
      ahead == <<"(?=">> \o <<".*?">> \o reRight \o <<")">>
      behind == <<"(?<=">> \o reRight \o <<".*?">> \o reLeft \o <<")">>
  IN  toEscaped(reLeft \o <<"(?:">> \o ahead \o <<"|">> \o behind \o <<")">>)

WITHOUT(left, right) ==
  LET reLeft == asEscaped(left).pattern
      reRight == asEscaped(right).pattern
      ahead == <<"(?!">> \o <<".*?">> \o reRight \o <<")">>
      behind == <<"(?<!">> \o reRight \o <<".*?">> \o reLeft \o <<")">>
  IN  toEscaped(reLeft \o ahead \o behind)

\* The outcome of a call that may throw: the returned value, or the error.
Returned(value) == [threw |-> FALSE, value |-> value]

Thrown(error) == [threw |-> TRUE, error |-> error]

\* An argument that was not passed.
Undefined == [kind |-> "undefined"]

Num(n) == [kind |-> "number", n |-> n]

Arr(items) == [kind |-> "array", items |-> items]

\* A default parameter: the default replaces an argument that is undefined.
DefaultArg(arg, default) == IF arg.kind = "undefined" THEN default ELSE arg

isExtBinaryOperator(value) == value \in {"NEAR", "BEYOND"}

\* Mutant of NEARRange: a two-element array is taken in the order given.
NEARRangeAsGiven(range) ==
  IF range.kind = "number"
  THEN Returned(IF range.n <= 0 THEN <<0, 0>> ELSE <<0, range.n>>)
  ELSE IF range.kind = "array" /\ Len(range.items) = 2
       THEN Returned(<<range.items[1], range.items[2]>>)
       ELSE Thrown("TypeError")

\* The [lo, hi] of exports.NEAR, or the TypeError it throws.
NEARRange(range) ==
  IF range.kind = "number"
  THEN Returned(IF range.n <= 0 THEN <<0, 0>> ELSE <<0, range.n>>)
  ELSE IF range.kind = "array" /\ Len(range.items) = 2
       THEN LET a == range.items[1]
                b == range.items[2]
            IN  Returned(<<IF a <= b THEN a ELSE b, IF a <= b THEN b ELSE a>>)
       ELSE Thrown("TypeError")

\* exports.NEAR(range = 10, sameLine = true): the matcher, or the error.
NEAR(range, sameLine) ==
  LET bounds == NEARRange(DefaultArg(range, Num(10)))
  IN  IF bounds.threw THEN bounds
      ELSE Returned([op |-> "NEAR", lo |-> bounds.value[1], hi |-> bounds.value[2],
                     sameLine |-> DefaultArg(sameLine, [kind |-> "boolean", b |-> TRUE]).b])

\* exports.BEYOND(distance = 10, sameLine = true): the matcher.
BEYOND(distance, sameLine) ==
  Returned([op |-> "BEYOND", lo |-> 0, hi |-> DefaultArg(distance, Num(10)).n,
            sameLine |-> DefaultArg(sameLine, [kind |-> "boolean", b |-> TRUE]).b])

\* The `matcher` closures of NEAR and BEYOND.
ApplyMatcher(matcher, left, right) ==
  LET reLeft == asEscaped(left).pattern
      reRight == asEscaped(right).pattern
      NW == IF matcher.sameLine THEN NWLB ELSE <<"\\W">>
      sep == <<"(?:">> \o NW \o <<"+\\w+){", ToString(matcher.lo), ",",
               ToString(matcher.hi), "}?\\W+">>
  IN  IF matcher.op = "NEAR"
      THEN LET ahead == <<"(?=">> \o sep \o reRight \o <<")">>
               behind == <<"(?<=">> \o reRight \o sep \o reLeft \o <<")">>
           IN  toEscaped(reLeft \o <<"(?:">> \o ahead \o <<"|">> \o behind \o <<")">>)
      ELSE LET ahead == <<"(?!">> \o sep \o reRight \o <<")">>
               behind == <<"(?<!">> \o reRight \o sep \o reLeft \o <<")">>
           IN  toEscaped(reLeft \o ahead \o behind)

\* op(...args) for an extended operator given by its tag.
CallExt(op, first, second) ==
  IF op = "NEAR" THEN NEAR(first, second) ELSE BEYOND(first, second)

\* theOp(left, right) of evalExp, for an operator given by its tag.
CallOp(op, left, right) ==
  CASE op = "AND" -> AND(left, right)
    [] op = "EXCLUDING" -> EXCLUDING(left, right)
    [] op = "WITH" -> WITH_(left, right)
    [] OTHER -> WITHOUT(left, right)

\* Mutant of evalExp: an extended operator is called with a range of its own.
evalExpWide(exp) ==
  IF isExtBinaryOperator(exp.op)
  THEN ApplyMatcher(CallExt(exp.op, Num(20), Undefined).value, exp.left, exp.right)
  ELSE CallOp(exp.op, exp.left, exp.right)

evalExp(exp) ==
  IF isExtBinaryOperator(exp.op)
  THEN ApplyMatcher(CallExt(exp.op, Undefined, Undefined).value, exp.left, exp.right)
  ELSE CallOp(exp.op, exp.left, exp.right)

\* The flags reNaiRegex accepts after the closing delimiter.
NaiFlags == {"i", "s", "m", "u"}

\* The characters that "." does not match.
LineTerminators == {"\n", "\r"}

\* reNaiRegex.exec(regex), /^\/(.*)\/[ismu]*$/ on a string given by its
\* characters: the group of the match, or no match.
reNaiRegexExec(regex) ==
  LET closers == {j \in 2..Len(regex) :
                    /\ regex[j] = "/"
                    /\ \A k \in (j + 1)..Len(regex) : regex[k] \in NaiFlags
                    /\ \A k \in 2..(j - 1) : regex[k] \notin LineTerminators}
  IN  IF Len(regex) >= 2 /\ regex[1] = "/" /\ closers # {}
      THEN LET last == CHOOSE j \in closers : \A k \in closers : k <= j
           IN  [matched |-> TRUE, group |-> SubSeq(regex, 2, last - 1)]
      ELSE [matched |-> FALSE, group |-> <<>>]

\* Mutant of REGEX: the text after the opening delimiter is kept whole.
REGEXKeepingFlags(regex) ==
  LET match == reNaiRegexExec(regex)
  IN  IF match.matched THEN Returned(toEscaped(Tail(regex))) ELSE Thrown("Error")

\* exports.REGEX
REGEX(regex) ==
  LET match == reNaiRegexExec(regex)
  IN  IF match.matched THEN Returned(toEscaped(match.group)) ELSE Thrown("Error")

\* matching.EXP / the array literal [left, op, right]
EXP(left, op, right) == [kind |-> "exp", left |-> left, op |-> op, right |-> right]

(***************************************************************************)
(* strategies/_naiDefaults.js                                              *)
(***************************************************************************)
contextDefaults ==
  [prefix |-> <<>>, suffix |-> <<"\n">>, tokenBudget |-> 2048, reservedTokens |-> 0,
   budgetPriority |-> 400, trimDirection |-> "trimBottom", insertionType |-> "newline",
   maximumTrimType |-> "sentence", insertionPosition |-> -1]

entryDefaults ==
  [searchRange |-> 1024, enabled |-> TRUE, forceActivation |-> FALSE,
   keyRelative |-> FALSE, nonStoryActivatable |-> FALSE]

(***************************************************************************)
(* strategies/depthDelta.js and strategies/fixed.js                        *)
(*                                                                         *)
(* A strategy instance is named by an identifier; two instances are the    *)
(* same object exactly when their identifiers are equal.  An instance has  *)
(* a type, its config (the baseConfig it was constructed with) and, for    *)
(* DepthDelta, theDefaults of its closure.                                 *)
(***************************************************************************)
\* Default values for the DepthDelta strategy's unique configuration.
DEFAULTS == [priorityDelta |-> 1, searchDelta |-> 1024]

\* exports.Fixed
Fixed(baseConfig) == [type |-> "Fixed", config |-> baseConfig]

\* exports.strategyBuilder of depthDelta.js
strategyBuilder(baseConfig, defaults) ==
  [type |-> "DepthDelta", config |-> baseConfig, theDefaults |-> Merge(DEFAULTS, defaults)]

\* exports.DepthDelta
DepthDelta(baseConfig) == strategyBuilder(baseConfig, EmptyObj)

\* strategies/scaffold.js: override default values for this strategy's
\* DepthDelta usage.
DEPTH_DELTA_DEFAULTS == [priorityDelta |-> 0, searchDelta |-> 0]

CONTEXT_DEFAULTS == [prefix |-> <<"[ ">>, suffix |-> <<"]\n">>]

\* Mutant of scaffoldStrategyBuilder: the preset keeps the default deltas of
\* DepthDelta.
scaffoldStrategyBuilderKeepingDeltas(baseConfig, defaults) ==
  strategyBuilder(
    Merge(Without(Without(baseConfig, "context"), "entry"),
          ("context" :> Merge(Merge(CONTEXT_DEFAULTS, PropOrEmpty(defaults, "context")),
                              PropOrEmpty(baseConfig, "context")))
            @@ ("entry" :> Merge(PropOrEmpty(defaults, "entry"),
                                 PropOrEmpty(baseConfig, "entry")))),
    EmptyObj)

\* exports.strategyBuilder of scaffold.js
scaffoldStrategyBuilder(baseConfig, defaults) ==
  LET restConfig == Without(Without(baseConfig, "context"), "entry")
      theConfig ==
        Merge(restConfig,
              ("context" :> Merge(Merge(CONTEXT_DEFAULTS, PropOrEmpty(defaults, "context")),
                                  PropOrEmpty(baseConfig, "context")))
                @@ ("entry" :> Merge(PropOrEmpty(defaults, "entry"),
                                     PropOrEmpty(baseConfig, "entry"))))
  IN  strategyBuilder(theConfig, DEPTH_DELTA_DEFAULTS)

\* exports.Concept: a note for broader world concepts.
Concept(baseConfig) ==
  scaffoldStrategyBuilder(baseConfig,
    [context |-> [reservedTokens |-> 0, budgetPriority |-> 800, insertionPosition |-> -1],
     entry |-> [searchRange |-> 2000]])

\* The configuration that deltaA and deltaB are both constructed with.
DeltaConfig ==
  ("context" :> ("budgetPriority" :> 500)) @@ ("entry" :> ("searchRange" :> 2000))

\* The strategy instances an author constructs in the explored inputs.
\*   default  the Fixed({}) of tlgBuildableDefaults
\*   fixedA   a Fixed strategy that overrides context and entry fields,
\*            forceActivation: false among them
\*   deltaA   a DepthDelta with explicit budgetPriority and searchRange
\*   deltaB   a second DepthDelta constructed with the same configuration
\*   deltaC   a DepthDelta with configured deltas and no context or entry
\*   deltaP   a DepthDelta that configures priorityDelta only
\*   deltaS   a DepthDelta with a negative searchDelta, a context override
\*            besides budgetPriority and searchRange as its only entry
\*            override
\*   fixedD   a Fixed strategy whose config carries delta properties
\*   concept  the Concept preset, constructed without a configuration
Instances ==
  [default |-> Fixed(EmptyObj),
   fixedA |-> Fixed(("context" :> (("prefix" :> <<"* ">>) @@ ("budgetPriority" :> 300)))
                    @@ ("entry" :> (("searchRange" :> 8192) @@ ("forceActivation" :> FALSE)))),
   deltaA |-> DepthDelta(DeltaConfig),
   deltaB |-> DepthDelta(DeltaConfig),
   deltaC |-> DepthDelta(("priorityDelta" :> -1) @@ ("searchDelta" :> 512)),
   deltaP |-> DepthDelta("priorityDelta" :> 2),
   deltaS |-> DepthDelta(("searchDelta" :> -1024)
                         @@ ("context" :> (("prefix" :> <<"- ">>) @@ ("budgetPriority" :> 450)))
                         @@ ("entry" :> ("searchRange" :> 1024))),
   fixedD |-> Fixed(("priorityDelta" :> 7) @@ ("searchDelta" :> 7)),
   concept |-> Concept(EmptyObj)]

isDepthDelta(self) == Instances[self].type = "DepthDelta"

\* Mutant of isInstanceInStack: an instance constructed with the same
\* configuration counts as this instance.
isInstanceInStackByConfig(stack, self) ==
  \E i \in 1..Len(stack) :
    /\ Instances[stack[i]].type = Instances[self].type
    /\ Instances[stack[i]].config = Instances[self].config

\* stack.includes(self): the stack holds this very instance.
isInstanceInStack(stack, self) == \E i \in 1..Len(stack) : stack[i] = self

\* The priorityDelta and searchDelta that a config defines.
UniqueOf(config) == [k \in (DOMAIN config) \cap {"priorityDelta", "searchDelta"} |-> config[k]]

\* Mutant of getInheritedUnique: the strategy pushed first wins.
RECURSIVE getInheritedUniqueOldest(_)
getInheritedUniqueOldest(stack) ==
  IF stack = <<>> THEN EmptyObj
  ELSE LET first == stack[1]
           after == getInheritedUniqueOldest(Tail(stack))
       IN  IF isDepthDelta(first) THEN Merge(after, UniqueOf(Instances[first].config))
           ELSE after

RECURSIVE getInheritedUnique(_)
getInheritedUnique(stack) ==
  IF stack = <<>> THEN EmptyObj
  ELSE LET last == stack[Len(stack)]
           before == getInheritedUnique(SubSeq(stack, 1, Len(stack) - 1))
       IN  IF isDepthDelta(last) THEN Merge(before, UniqueOf(Instances[last].config))
           ELSE before

\* extendContext of the strategyBuilder closure
extendContext(theDefaults, curContext, configContext, unique) ==
  LET priorityDelta == IF "priorityDelta" \in DOMAIN unique THEN unique.priorityDelta
                       ELSE theDefaults.priorityDelta
      budgetPriority == curContext.budgetPriority + priorityDelta
  IN  Merge(configContext, "budgetPriority" :> budgetPriority)

\* extendEntry of the strategyBuilder closure
extendEntry(theDefaults, curEntry, configEntry, unique) ==
  LET searchDelta == IF "searchDelta" \in DOMAIN unique THEN unique.searchDelta
                     ELSE theDefaults.searchDelta
      searchRange == curEntry.searchRange + searchDelta
  IN  Merge(configEntry, "searchRange" :> searchRange)

\* Mutant of DepthDeltaApply: budgetPriority and searchRange are kept even
\* when the instance has been applied before.
DepthDeltaApplyKeeping(self, state, currentConfig) ==
  LET finalUnique == Merge(getInheritedUnique(state.strategyStack), UniqueOf(currentConfig))
  IN  PropIf("context" \in DOMAIN currentConfig, "context", currentConfig.context)
      @@ PropIf("entry" \in DOMAIN currentConfig, "entry", currentConfig.entry)
      @@ finalUnique

\* Mutant of DepthDeltaApply: an instance that has been applied before
\* loses its context and entry overrides altogether.
DepthDeltaApplyDropping(self, state, currentConfig) ==
  LET finalUnique == Merge(getInheritedUnique(state.strategyStack), UniqueOf(currentConfig))
  IN  IF ~isInstanceInStack(state.strategyStack, self)
      THEN PropIf("context" \in DOMAIN currentConfig, "context", currentConfig.context)
           @@ PropIf("entry" \in DOMAIN currentConfig, "entry", currentConfig.entry)
           @@ finalUnique
      ELSE finalUnique

\* self.apply of DepthDelta
DepthDeltaApply(self, state, currentConfig) ==
  LET configUnique == UniqueOf(currentConfig)
      inheritedUnique == getInheritedUnique(state.strategyStack)
      finalUnique == Merge(inheritedUnique, configUnique)
      hasContext == "context" \in DOMAIN currentConfig
      hasEntry == "entry" \in DOMAIN currentConfig
      restContext == Without(currentConfig.context, "budgetPriority")
      restEntry == Without(currentConfig.entry, "searchRange")
  IN  IF ~isInstanceInStack(state.strategyStack, self)
      THEN PropIf(hasContext, "context", currentConfig.context)
           @@ PropIf(hasEntry, "entry", currentConfig.entry)
           @@ finalUnique
      ELSE PropIf(hasContext /\ DOMAIN restContext # {}, "context", restContext)
           @@ PropIf(hasEntry /\ DOMAIN restEntry # {}, "entry", restEntry)
           @@ finalUnique

\* self.extend of DepthDelta
DepthDeltaExtend(self, state, currentConfig) ==
  LET finalUnique == UniqueOf(currentConfig)
      context == extendContext(Instances[self].theDefaults, state.context,
                               PropOrEmpty(currentConfig, "context"), finalUnique)
      entry == extendEntry(Instances[self].theDefaults, state.entry,
                           PropOrEmpty(currentConfig, "entry"), finalUnique)
  IN  ("context" :> context) @@ ("entry" :> entry) @@ finalUnique

\* apply of Fixed
FixedApply(self, state, currentConfig) == currentConfig

\* Mutant of FixedExtend: the priority is raised for the sub-entries.
FixedExtendRaising(self, state, currentConfig) ==
  Merge(currentConfig,
        "context" :> Merge(PropOrEmpty(currentConfig, "context"),
                           "budgetPriority" :> (state.context.budgetPriority + 1)))

\* extend of Fixed
FixedExtend(self, state, currentConfig) == currentConfig

\* strategy.apply(state, config), dispatched on the instance
StrategyApply(self, state, config) ==
  IF isDepthDelta(self) THEN DepthDeltaApply(self, state, config)
  ELSE FixedApply(self, state, config)

\* strategy.extend(state, config), dispatched on the instance
StrategyExtend(self, state, config) ==
  IF isDepthDelta(self) THEN DepthDeltaExtend(self, state, config)
  ELSE FixedExtend(self, state, config)

\* strategy.context(state, strategyConfig): the same in both strategies
StrategyContext(self, state, strategyConfig) ==
  Merge(state.context, PropOrEmpty(strategyConfig, "context"))

\* strategy.entry(state, strategyConfig): the same in both strategies
StrategyEntry(self, state, strategyConfig) ==
  Merge(state.entry, PropOrEmpty(strategyConfig, "entry"))

(***************************************************************************)
(* building.js: the entry builder.                                         *)
(*                                                                         *)
(* An entry (TLG.BuildableEntry) is a record; an optional property that is *)
(* not given is "none" (strategy, baseOp, subOp), kind "absent" (text,     *)
(* baseKeys) or 0 (the number of subEntries).                              *)
(***************************************************************************)
\* A baseKeys function of the author, named by a tag.  dropFirst returns a
\* new array without the first inherited key, addKey a new array with one
\* more key.
ApplyBaseKeysFn(fn, baseKeys) ==
  CASE fn = "dropFirst" -> (IF baseKeys = <<>> THEN <<>> ELSE Tail(baseKeys))
    [] fn = "addKey" -> Append(baseKeys, LIT(<<"o">>))
    [] OTHER -> baseKeys

\* Mutant of yieldChildKeys: every own key is combined with every inherited
\* key, giving |C| x |P| keys.
yieldChildKeysCross(parentKeys, subOp, childKeys) ==
  IF Len(parentKeys) = 0 THEN childKeys
  ELSE IF Len(childKeys) = 0 THEN parentKeys
  ELSE [n \in 1..(Len(childKeys) * Len(parentKeys)) |->
          evalExp(EXP(childKeys[((n - 1) \div Len(parentKeys)) + 1], subOp,
                      parentKeys[((n - 1) % Len(parentKeys)) + 1]))]

\* Mutant of yieldChildKeys: the inherited keys are the left operand.
yieldChildKeysSwapped(parentKeys, subOp, childKeys) ==
  IF Len(parentKeys) = 0 THEN childKeys
  ELSE IF Len(childKeys) = 0 THEN parentKeys
  ELSE LET altKeys == IF Len(parentKeys) = 1 THEN parentKeys[1] ELSE ALT(parentKeys)
       IN  [i \in 1..Len(childKeys) |-> evalExp(EXP(altKeys, subOp, childKeys[i]))]

\* Mutant of yieldChildKeys: an entry without own keys gets no keys.
yieldChildKeysOwnOnly(parentKeys, subOp, childKeys) ==
  IF Len(parentKeys) = 0 THEN childKeys
  ELSE IF Len(childKeys) = 0 THEN childKeys
  ELSE LET altKeys == IF Len(parentKeys) = 1 THEN parentKeys[1] ELSE ALT(parentKeys)
       IN  [i \in 1..Len(childKeys) |-> evalExp(EXP(childKeys[i], subOp, altKeys))]

\* exports.yieldChildKeys, collected into an array
yieldChildKeys(parentKeys, subOp, childKeys) ==
  IF Len(parentKeys) = 0 THEN childKeys
  ELSE IF Len(childKeys) = 0 THEN parentKeys
  ELSE LET altKeys == IF Len(parentKeys) = 1 THEN parentKeys[1] ELSE ALT(parentKeys)
       IN  [i \in 1..Len(childKeys) |-> evalExp(EXP(childKeys[i], subOp, altKeys))]

\* Mutant of DisplayName: the zero-based position is shown as it is.
DisplayNameZeroBased(name, i, textCount) ==
  IF textCount = 1 THEN name
  ELSE name \o <<" (", ToString(i), " of ", ToString(textCount), ")">>

\* The " (i of N)" template of entriesByText; i is the zero-based position.
DisplayName(name, i, textCount) ==
  IF textCount = 1 THEN name
  ELSE name \o <<" (", ToString(i + 1), " of ", ToString(textCount), ")">>

\* The records of entriesByText for a state already chosen.
EntriesWithState(name, state, usedState, input) ==
  LET contextConfig == StrategyContext(input.strategy, usedState, input.config)
      entryConfig == StrategyEntry(input.strategy, usedState, input.config)
      textCount == Len(input.text)
      positioned == iterPosition(input.text)
      ordered == IF state.reversedTextIteration THEN iterReverse(positioned) ELSE positioned
      entryIterator ==
        [j \in 1..Len(ordered) |->
           Merge(entryConfig,
                 [displayName |-> DisplayName(name, ordered[j][1], textCount),
                  text |-> ordered[j][2],
                  keys |-> input.keys,
                  contextConfig |-> contextConfig])]
  IN  [context |-> contextConfig, entries |-> entryIterator]

\* Mutant of entriesByText: the configuration is computed from the state as
\* received, without the forced activation.
entriesByTextUnforced(name, state, input) ==
  EntriesWithState(name, state, state, input)

\* Mutant of entriesByText: the activation is forced when there are keys.
entriesByTextInverted(name, state, input) ==
  EntriesWithState(name, state,
    IF Len(input.keys) = 0 THEN state
    ELSE [state EXCEPT !.entry = Merge(Without(state.entry, "forceActivation"),
                                       "forceActivation" :> TRUE)],
    input)

\* Mutant of entriesByText: the strings are numbered after they are reversed.
entriesByTextNumberedAfter(name, state, input) ==
  LET usedState ==
        IF Len(input.keys) > 0 THEN state
        ELSE [state EXCEPT !.entry = Merge(Without(state.entry, "forceActivation"),
                                           "forceActivation" :> TRUE)]
      contextConfig == StrategyContext(input.strategy, usedState, input.config)
      entryConfig == StrategyEntry(input.strategy, usedState, input.config)
      textCount == Len(input.text)
      ordered == iterPosition(IF state.reversedTextIteration THEN iterReverse(input.text)
                              ELSE input.text)
      entryIterator ==
        [j \in 1..Len(ordered) |->
           Merge(entryConfig,
                 [displayName |-> DisplayName(name, ordered[j][1], textCount),
                  text |-> ordered[j][2],
                  keys |-> input.keys,
                  contextConfig |-> contextConfig])]
  IN  [context |-> contextConfig, entries |-> entryIterator]

\* exports.entriesByText; input is [strategy, config, text, keys].
entriesByText(name, state, input) ==
  LET usedState ==
        IF Len(input.keys) > 0 THEN state
        ELSE [state EXCEPT !.entry = Merge(Without(state.entry, "forceActivation"),
                                           "forceActivation" :> TRUE)]
      contextConfig == StrategyContext(input.strategy, usedState, input.config)
      entryConfig == StrategyEntry(input.strategy, usedState, input.config)
      textCount == Len(input.text)
      positioned == iterPosition(input.text)
      ordered == IF state.reversedTextIteration THEN iterReverse(positioned) ELSE positioned
      entryIterator ==
        [j \in 1..Len(ordered) |->
           Merge(entryConfig,
                 [displayName |-> DisplayName(name, ordered[j][1], textCount),
                  text |-> ordered[j][2],
                  keys |-> input.keys,
                  contextConfig |-> contextConfig])]
  IN  [context |-> contextConfig, entries |-> entryIterator]

\* nextState of exports.entriesByChildren; input is [strategy, config, context].
\* Mutant of NextState: the intermediate state is built from the state
\* that entriesByText forced the activation in.
NextStateFromForced(state, input) ==
  LET strategy == input.strategy
      usedState ==
        IF Len(input.keys) > 0 THEN state
        ELSE [state EXCEPT !.entry = Merge(state.entry, "forceActivation" :> TRUE)]
      intermediateState ==
        [state EXCEPT !.context = input.context,
                      !.entry = StrategyEntry(strategy, usedState, input.config)]
      nextConfig == StrategyExtend(strategy, intermediateState, input.config)
  IN  [context |-> StrategyContext(strategy, intermediateState, nextConfig),
       entry |-> StrategyEntry(strategy, intermediateState, nextConfig),
       strategyStack |-> Append(state.strategyStack, strategy),
       depth |-> state.depth + 1,
       reversedTextIteration |-> state.reversedTextIteration]

\* Mutant of NextState: the strategy is pushed when the entry has a strategy
\* of its own configuration only, and the depth counts those.
NextStateUnpushed(state, input) ==
  LET strategy == input.strategy
      intermediateState ==
        [state EXCEPT !.context = input.context,
                      !.entry = StrategyEntry(strategy, state, input.config)]
      nextConfig == StrategyExtend(strategy, intermediateState, input.config)
      pushed == DOMAIN Instances[strategy].config # {}
  IN  [context |-> StrategyContext(strategy, intermediateState, nextConfig),
       entry |-> StrategyEntry(strategy, intermediateState, nextConfig),
       strategyStack |-> IF pushed THEN Append(state.strategyStack, strategy)
                         ELSE state.strategyStack,
       depth |-> IF pushed THEN state.depth + 1 ELSE state.depth,
       reversedTextIteration |-> state.reversedTextIteration]

NextState(state, input) ==
  LET strategy == input.strategy
      intermediateState ==
        [state EXCEPT !.context = input.context,
                      !.entry = StrategyEntry(strategy, state, input.config)]
      nextConfig == StrategyExtend(strategy, intermediateState, input.config)
  IN  [context |-> StrategyContext(strategy, intermediateState, nextConfig),
       entry |-> StrategyEntry(strategy, intermediateState, nextConfig),
       strategyStack |-> Append(state.strategyStack, strategy),
       depth |-> state.depth + 1,
       reversedTextIteration |-> state.reversedTextIteration]

\* Mutant of NewEntry: a list given as baseKeys is replaced by the keys of
\* the parent.
NewEntryInheritingOverList(name, subOp, keys, subEntry) ==
  [subEntry EXCEPT
     !.baseOp = IF subEntry.baseOp = "none" THEN subOp ELSE subEntry.baseOp,
     !.name = name \o <<" - ">> \o subEntry.name,
     !.baseKeys =
        [kind |-> "list", fn |-> "none",
         list |-> IF subEntry.baseKeys.kind = "fn"
                  THEN ApplyBaseKeysFn(subEntry.baseKeys.fn, keys)
                  ELSE keys]]

\* Mutant of NewEntry: the subOp of the parent is spread after the
\* properties of the sub-entry and replaces its baseOp.
NewEntryParentOpLast(name, subOp, keys, subEntry) ==
  [subEntry EXCEPT
     !.baseOp = subOp,
     !.name = name \o <<" - ">> \o subEntry.name,
     !.baseKeys =
        [kind |-> "list", fn |-> "none",
         list |-> CASE subEntry.baseKeys.kind = "absent" -> keys
                    [] subEntry.baseKeys.kind = "fn" -> ApplyBaseKeysFn(subEntry.baseKeys.fn, keys)
                    [] OTHER -> subEntry.baseKeys.list]]

\* Mutant of NewEntry: the sub-entry keeps the name it was given.
NewEntryUnprefixed(name, subOp, keys, subEntry) ==
  [subEntry EXCEPT
     !.baseOp = IF subEntry.baseOp = "none" THEN subOp ELSE subEntry.baseOp,
     !.baseKeys =
        [kind |-> "list", fn |-> "none",
         list |-> CASE subEntry.baseKeys.kind = "absent" -> keys
                    [] subEntry.baseKeys.kind = "fn" -> ApplyBaseKeysFn(subEntry.baseKeys.fn, keys)
                    [] OTHER -> subEntry.baseKeys.list]]

\* The entry that exports.entriesByChildren hands to yieldEntries for one
\* sub-entry; `name`, `subOp` and `keys` are the parent's.
NewEntry(name, subOp, keys, subEntry) ==
  [subEntry EXCEPT
     !.baseOp = IF subEntry.baseOp = "none" THEN subOp ELSE subEntry.baseOp,
     !.name = name \o <<" - ">> \o subEntry.name,
     !.baseKeys =
        [kind |-> "list", fn |-> "none",
         list |-> CASE subEntry.baseKeys.kind = "absent" -> keys
                    [] subEntry.baseKeys.kind = "fn" -> ApplyBaseKeysFn(subEntry.baseKeys.fn, keys)
                    [] OTHER -> subEntry.baseKeys.list]]

\* The locals of exports.yieldEntries before it yields.
YieldEntriesLocals(entry, state, defaultsForEntry) ==
  LET name == entry.name
      strategy == IF entry.strategy = "none" THEN defaultsForEntry.strategy ELSE entry.strategy
      baseOp == IF entry.baseOp = "none" THEN defaultsForEntry.subOp ELSE entry.baseOp
      subOp == IF entry.subOp = "none" THEN baseOp ELSE entry.subOp
      theBaseKeys == CASE entry.baseKeys.kind = "absent" -> <<>>
                       [] entry.baseKeys.kind = "fn" -> ApplyBaseKeysFn(entry.baseKeys.fn, <<>>)
                       [] OTHER -> entry.baseKeys.list
      composedKeys == yieldChildKeys(theBaseKeys, baseOp, entry.keys)
      text == asArray(entry.path, entry.text)
      keys == [i \in 1..Len(composedKeys) |-> toNAI(asEscaped(composedKeys[i]))]
      curConfig == StrategyApply(strategy, state, Instances[strategy].config)
      byText == entriesByText(name, state,
                  [strategy |-> strategy, text |-> text, keys |-> keys, config |-> curConfig])
  IN  [entry |-> entry, state |-> state, name |-> name, strategy |-> strategy,
       baseOp |-> baseOp, subOp |-> subOp, theBaseKeys |-> theBaseKeys,
       composedKeys |-> composedKeys, keys |-> keys, curConfig |-> curConfig,
       byText |-> byText]

\* yieldChildKeys throws a TypeError for an entry that has no `keys`: it
\* iterates childKeys, or reads childKeys.length, of undefined.
yieldChildKeysThrows(entry) == ~entry.hasKeys

\* Mutant of EmitOrder: the records of the sub-entries always come first.
EmitOrderChildrenFirst(reversedTextIteration, byText, byChildren) ==
  byChildren \o byText

\* Mutant of EmitOrder: the own records always come first.
EmitOrderTextFirst(reversedTextIteration, byText, byChildren) ==
  byText \o byChildren

\* The order in which exports.yieldEntries yields the own records and the
\* records of the sub-entries.
EmitOrder(reversedTextIteration, byText, byChildren) ==
  IF reversedTextIteration THEN byChildren \o byText ELSE byText \o byChildren

\* Mutant of Propagate: the records collected before the failure are
\* returned as a lorebook.
PropagatePartial(records) == << [lorebookVersion |-> 2, entries |-> records] >>

\* What exports.buildEntries returns when a yieldEntries call throws: nothing,
\* as nothing catches the error.
Propagate(records) == <<>>

\* tlgBuildableDefaults
tlgBuildableDefaults == [strategy |-> "default", subOp |-> "AND"]

\* Mutant of ChildEntryConfig: sub-entries fall back to the builder's
\* default strategy instead of their parent's.
ChildEntryConfigDefault(strategy, subOp) ==
  [strategy |-> tlgBuildableDefaults.strategy, subOp |-> subOp]

\* childEntryConfig of exports.entriesByChildren: the defaults a sub-entry
\* is processed with.
ChildEntryConfig(strategy, subOp) == [strategy |-> strategy, subOp |-> subOp]

\* initState of exports.buildEntries, for a builder config whose strategy is
\* `strategy` ("none" when the config has none).
InitState(strategy, reversedTextIteration) ==
  LET state == [context |-> contextDefaults, entry |-> entryDefaults,
                strategyStack |-> <<>>, depth |-> 0,
                reversedTextIteration |-> reversedTextIteration]
      config == StrategyApply(strategy, state, Instances[strategy].config)
      context == IF strategy = "none" THEN EmptyObj ELSE StrategyContext(strategy, state, config)
      entry == IF strategy = "none" THEN EmptyObj ELSE StrategyEntry(strategy, state, config)
  IN  [context |-> Merge(contextDefaults, context),
       entry |-> Merge(entryDefaults, entry),
       strategyStack |-> <<>>, depth |-> 0,
       reversedTextIteration |-> reversedTextIteration]

\* initEntryConfig of exports.buildEntries: { ...tlgBuildableDefaults, ...restConfig }
InitEntryConfig(restConfig) ==
  [strategy |-> IF restConfig.strategy = "none" THEN tlgBuildableDefaults.strategy
                ELSE restConfig.strategy,
   subOp |-> IF restConfig.subOp = "none" THEN tlgBuildableDefaults.subOp
             ELSE restConfig.subOp]

(***************************************************************************)
(* The explored inputs.                                                    *)
(*                                                                         *)
(* The entries of the builder config are read one at a time, when          *)
(* yieldEntries reaches them, so the model draws each entry's properties   *)
(* at that moment and records the entry in `tree`.  The inputs come in     *)
(* families, each varying the properties one part of the builder reads.    *)
(***************************************************************************)
Families == {"keys", "ops", "activation", "strategy", "text", "failure"}

\* The families that vary what an entry hands down to its sub-entries: the
\* baseKeys override, the operators, and a preset strategy.
InheritFamilies == {"baseKeys", "operators", "preset"}

\* The families whose entries are nested in one chain.
ChainFamilies == {"strategy", "preset"}

\* Entries in one builder config of a family.  The strategy family has the
\* chains of MaxNodes nested entries; the other families read properties
\* that no entry passes further than to its sub-entries' sub-entries.
FamilyNodes(fam) == IF fam \in ChainFamilies THEN MaxNodes ELSE MaxNodes - 1

\* Sub-entries of one entry: the strategy family nests its entries in one
\* chain, the other families branch as far as their entries allow.
FamilySubs(fam) == IF fam \in ChainFamilies THEN {0, 1} ELSE 0..FamilyNodes(fam)

\* Root entries in one builder config of a family.  Every root entry is
\* processed from the same initial state, so two show them side by side;
\* the strategy family spends all its entries below one root.
FamilyRoots(fam) == IF fam \in ChainFamilies THEN {1} ELSE {1, 2}

\* The /pattern/flags string an author imports with REGEX as the i-th own
\* key of an entry at the given depth.
ImportedPattern(depth, i) == <<"\\b", "k", ToString(depth), ".", ToString(i), "\\w+">>

ImportedAt(depth, i) == <<"/">> \o ImportedPattern(depth, i) \o <<"/", "s", "m">>

\* The i-th own key of an entry at the given depth: a bare string (with a
\* character that escapeRegExp escapes), a LIT phrase, or a RegExp with a
\* flag or a phrase imported with REGEX.
KeyAt(depth, i) ==
  LET word == <<"k", ToString(depth), ".", ToString(i)>>
  IN  CASE i % 3 = 1 -> [kind |-> "string", word |-> word]
        [] i % 3 = 2 -> LIT(word)
        [] OTHER -> IF depth % 2 = 0
                    THEN [kind |-> "regexp", source |-> <<"\\b">> \o word, flags |-> <<"g">>]
                    ELSE REGEX(ImportedAt(depth, i)).value

OwnKeys(depth, n) == [i \in 1..n |-> KeyAt(depth, i)]

NoBaseKeys == [kind |-> "absent", fn |-> "none", list |-> <<>>]

ScalarText == [kind |-> "scalar", n |-> 1]

\* A key that an author puts into baseKeys, by a list or by a function.
ExtraKey == LIT(<<"o">>)

\* The baseKeys an author may give an entry: none, a function that returns
\* the inherited keys without the first, a function that returns them with
\* a key added, and a list.
BaseKeysChoices ==
  {NoBaseKeys,
   [kind |-> "fn", fn |-> "dropFirst", list |-> <<>>],
   [kind |-> "fn", fn |-> "addKey", list |-> <<>>],
   [kind |-> "list", fn |-> "none", list |-> <<ExtraKey>>]}

\* The properties an author may give one entry, per family.
EntryChoices(fam) ==
  CASE fam = "keys" ->
         [hasKeys : {TRUE}, nKeys : 0..MaxKeys, baseOp : {"none"}, subOp : {"none"},
          baseKeys : {NoBaseKeys}, text : {ScalarText}, strategy : {"none"}]
    [] fam = "ops" ->
         [hasKeys : {TRUE}, nKeys : {1, 2}, baseOp : {"none", "WITH", "EXCLUDING"}, subOp : {"none"},
          baseKeys : {NoBaseKeys}, text : {ScalarText}, strategy : {"none"}]
    [] fam = "activation" ->
         [hasKeys : {TRUE}, nKeys : {0, 1}, baseOp : {"none"}, subOp : {"none"},
          baseKeys : {NoBaseKeys}, text : {ScalarText},
          strategy : {"none", "fixedA", "deltaC"}]
    [] fam = "strategy" ->
         [hasKeys : {TRUE}, nKeys : {1}, baseOp : {"none"}, subOp : {"none"},
          baseKeys : {NoBaseKeys}, text : {ScalarText},
          strategy : {"none", "fixedA", "deltaA", "deltaB"}]
    [] fam = "baseKeys" ->
         [hasKeys : {TRUE}, nKeys : {1, 2}, baseOp : {"none"}, subOp : {"none"},
          baseKeys : BaseKeysChoices, text : {ScalarText}, strategy : {"none"}]
    [] fam = "operators" ->
         [hasKeys : {TRUE}, nKeys : {1}, baseOp : {"none", "WITH", "EXCLUDING"},
          subOp : {"none", "WITHOUT"},
          baseKeys : {NoBaseKeys}, text : {ScalarText}, strategy : {"none"}]
    [] fam = "preset" ->
         [hasKeys : BOOLEAN, nKeys : {1}, baseOp : {"none"}, subOp : {"none"},
          baseKeys : {NoBaseKeys}, text : {ScalarText},
          strategy : {"none", "concept", "deltaC"}]
    [] fam = "failure" ->
         [hasKeys : BOOLEAN, nKeys : {1}, baseOp : {"none"}, subOp : {"none"},
          baseKeys : {NoBaseKeys}, text : {ScalarText}, strategy : {"none"}]
    [] OTHER ->
         [hasKeys : {TRUE}, nKeys : {1}, baseOp : {"none"}, subOp : {"none"},
          baseKeys : {NoBaseKeys},
          text : {[kind |-> "absent", n |-> 0], ScalarText}
                 \cup [kind : {"list"}, n : {0, 1, MaxTexts}],
          strategy : {"none"}]

\* The strategy of the builder config, per family ("none": not configured).
ConfigStrategies(fam) ==
  CASE fam = "strategy" -> {"none", "deltaA"}
    [] fam = "preset" -> {"none", "concept"}
    [] OTHER -> {"none"}

\* The subOp of the builder config, per family ("none": not configured).
ConfigSubOps(fam) == IF fam = "operators" THEN {"none", "WITH"} ELSE {"none"}

\* The name an author gives the i-th entry of a list of entries.
NameOf(i) == <<"E", ToString(i)>>

\* The entry at `path` with the chosen properties and nSub sub-entries.
RawEntry(path, choice, nSub) ==
  [path |-> path, name |-> NameOf(path[Len(path)]),
   hasKeys |-> choice.hasKeys,
   keys |-> IF choice.hasKeys THEN OwnKeys(Len(path) - 1, choice.nKeys) ELSE <<>>,
   text |-> choice.text, strategy |-> choice.strategy,
   baseOp |-> choice.baseOp, subOp |-> choice.subOp,
   baseKeys |-> choice.baseKeys, nSub |-> nSub]

(***************************************************************************)
(* State.                                                                  *)
(***************************************************************************)
VARIABLES
  pc,        \* "config": buildEntries not yet called; "building"; "done"
  family,    \* the family the input is drawn from
  config,    \* the TLG.BuilderConfig: strategy, subOp, settings, nRoots
  tree,      \* the entries read so far, by path
  stack,     \* the suspended generators: entries to visit, records to yield
  calls,     \* the yieldEntries calls made so far, with their locals
  entries,   \* the records yielded so far
  result,    \* << the lorebook buildEntries returned >>, or << >>
  call,      \* a call of a function of matching.js: the function, its arguments
  outcome    \* << what the call returned or threw >>, or << >> before it is made

vars == <<pc, family, config, tree, stack, calls, entries, result, call, outcome>>

\* No function of matching.js is called on its own while a lorebook is built.
NoCall == [fn |-> "none"]

\* Entries read so far or waiting to be read.
NodeCount ==
  Cardinality(DOMAIN tree) + Len(SelectSeq(stack, LAMBDA f : f.kind = "visit"))

InitOf(families) ==
  /\ pc = "config"
  /\ family \in families
  /\ config \in [strategy : ConfigStrategies(family), subOp : ConfigSubOps(family),
                 reversedTextIteration : IF family = "text" THEN BOOLEAN ELSE {FALSE},
                 nRoots : FamilyRoots(family)]
  /\ tree = <<>>
  /\ stack = <<>>
  /\ calls = <<>>
  /\ entries = <<>>
  /\ result = <<>>
  /\ call = NoCall
  /\ outcome = <<>>

Init == InitOf(Families)

\* A suspended yieldEntries(entry, state, defaultsForEntry) call for the
\* entry at `path`; for a sub-entry, parent holds the name, subOp and keys
\* that entriesByChildren builds the entry from.
VisitFrame(path, isRoot, parent, state, defaultsForEntry) ==
  [kind |-> "visit", path |-> path, isRoot |-> isRoot, parent |-> parent,
   state |-> state, defaultsForEntry |-> defaultsForEntry, records |-> <<>>]

\* The records of byText.entries, waiting to be yielded.
TextFrame(path, records) ==
  [kind |-> "text", path |-> path, isRoot |-> FALSE,
   parent |-> [name |-> <<>>, subOp |-> "none", keys |-> <<>>],
   state |-> <<>>, defaultsForEntry |-> <<>>, records |-> records]

NoParent == [name |-> <<>>, subOp |-> "none", keys |-> <<>>]

\* exports.buildEntries, up to the first yieldEntries call.
BuildEntries ==
  /\ pc = "config"
  /\ LET initEntryConfig == InitEntryConfig(config)
         initState == InitState(config.strategy, config.reversedTextIteration)
     IN  stack' = [i \in 1..config.nRoots |->
                     VisitFrame(<<i>>, TRUE, NoParent, initState, initEntryConfig)]
  /\ pc' = "building"
  /\ UNCHANGED <<family, config, tree, calls, entries, result, call, outcome>>

\* exports.yieldEntries for the next entry, together with the
\* entriesByChildren mapping that built the entry when it is a sub-entry.
YieldEntries ==
  /\ pc = "building"
  /\ stack # <<>>
  /\ Head(stack).kind = "visit"
  /\ \E choice \in EntryChoices(family), nSub \in FamilySubs(family) :
       LET f == Head(stack)
           raw == RawEntry(f.path, choice, nSub)
           entry == IF f.isRoot THEN raw
                    ELSE NewEntry(f.parent.name, f.parent.subOp, f.parent.keys, raw)
           loc == YieldEntriesLocals(entry, f.state, f.defaultsForEntry)
           nextState == NextState(f.state, [strategy |-> loc.strategy,
                                            config |-> loc.curConfig,
                                            context |-> loc.byText.context,
                                            keys |-> loc.composedKeys])
           childEntryConfig == ChildEntryConfig(loc.strategy, loc.subOp)
           byChildren ==
             [j \in 1..nSub |->
                VisitFrame(Append(f.path, j), FALSE,
                           [name |-> loc.name, subOp |-> loc.subOp, keys |-> loc.composedKeys],
                           nextState, childEntryConfig)]
           byText == <<TextFrame(f.path, loc.byText.entries)>>
       IN  /\ NodeCount + nSub <= FamilyNodes(family)
           /\ ~yieldChildKeysThrows(raw)
           /\ tree' = tree @@ (f.path :> raw)
           /\ calls' = Append(calls, loc)
           /\ stack' = EmitOrder(f.state.reversedTextIteration, byText, byChildren)
                         \o Tail(stack)
  /\ UNCHANGED <<pc, family, config, entries, result, call, outcome>>

\* exports.yieldEntries for an entry without keys: yieldChildKeys throws a
\* TypeError, which no generator and no caller up to buildEntries catches, so
\* buildEntries throws it, and the records collected so far are dropped with
\* the frames that held them.
YieldEntriesThrows ==
  /\ pc = "building"
  /\ stack # <<>>
  /\ Head(stack).kind = "visit"
  /\ \E choice \in EntryChoices(family) :
       yieldChildKeysThrows(RawEntry(Head(stack).path, choice, 0))
  /\ pc' = "thrown"
  /\ result' = Propagate(entries)
  /\ UNCHANGED <<family, config, tree, stack, calls, entries, call, outcome>>

\* yield* byText.entries
YieldText ==
  /\ pc = "building"
  /\ stack # <<>>
  /\ Head(stack).kind = "text"
  /\ entries' = entries \o Head(stack).records
  /\ stack' = Tail(stack)
  /\ UNCHANGED <<pc, family, config, tree, calls, result, call, outcome>>

\* The return of exports.buildEntries.
Return ==
  /\ pc = "building"
  /\ stack = <<>>
  /\ result' = << [lorebookVersion |-> 2, entries |-> entries] >>
  /\ pc' = "done"
  /\ UNCHANGED <<family, config, tree, stack, calls, entries, call, outcome>>

Next == BuildEntries \/ YieldEntries \/ YieldEntriesThrows \/ YieldText \/ Return

Spec == Init /\ [][Next]_vars

\* exports.buildEntries on the inputs of the inheritance families.
InheritInit == InitOf(InheritFamilies)

InheritSpec == InheritInit /\ [][Next]_vars

(***************************************************************************)
(* The functions of matching.js, called on their own.                      *)
(***************************************************************************)
\* The i-th word; every other word has a character that escapeRegExp escapes.
WordAt(i) == IF i % 2 = 1 THEN <<"w", ToString(i), ".", "x">> ELSE <<"w", ToString(i)>>

\* Phrases that are not expressions: a bare string, a RegExp with a flag and
\* an escaped phrase, of every word.
Atoms ==
  UNION {{ [kind |-> "string", word |-> WordAt(i)],
           [kind |-> "regexp", source |-> <<"^">> \o WordAt(i), flags |-> <<"g">>],
           LIT(WordAt(i)) } : i \in 1..MaxWords}

Operators == BinaryOperators \cup {"NEAR", "BEYOND"}

\* Phrase expressions over the atoms, and expressions whose right operand is
\* an expression itself.
Exps ==
  {EXP(l, op, r) : l \in Atoms, op \in Operators, r \in Atoms}
    \cup {EXP(l, op, EXP(r, "NEAR", l)) : l \in Atoms, op \in Operators, r \in Atoms}

Phrases == Atoms \cup Exps

BoolArgs == {Undefined, [kind |-> "boolean", b |-> TRUE], [kind |-> "boolean", b |-> FALSE]}

\* What an author may pass as the range of NEAR: nothing, a number, an array
\* of numbers, or a value that is neither (null, a string, an object).
RangeArgs ==
  {Undefined, [kind |-> "other"]}
    \cup {Num(n) : n \in (0 - 1)..MaxRange}
    \cup {Arr(items) : items \in UNION {[1..n -> 0..MaxRange] : n \in 0..3}}

DistanceArgs == {Undefined} \cup {Num(n) : n \in 0..MaxRange}

RegexChars == {"/", "a", "i", "g", "\n"}

RegexStrings == UNION {[1..n -> RegexChars] : n \in 0..MaxChars}

\* The characters of the searched texts, and the longest text.
TextChars == {"a", "b", " "}

Texts == UNION {[1..n -> TextChars] : n \in 0..MaxTextLen}

\* Phrases over the characters of the texts: words, RegExp literals that
\* overlap each other ("ab" and "ba"), an escaped phrase and expressions.
ShortAtoms ==
  { [kind |-> "string", word |-> <<"a">>],
    [kind |-> "string", word |-> <<"a", "b">>],
    [kind |-> "regexp", source |-> <<"b">>, flags |-> <<>>],
    [kind |-> "regexp", source |-> <<"b", "a">>, flags |-> <<>>],
    LIT(<<"b">>) }

ShortPhrases ==
  ShortAtoms
    \cup {EXP([kind |-> "string", word |-> <<"a">>], op,
               [kind |-> "regexp", source |-> <<"b">>, flags |-> <<>>]) :
             op \in {"AND", "EXCLUDING", "WITHOUT"}}

MatchCalls ==
  [fn : {"asEscaped"}, phrase : Phrases]
    \cup [fn : {"operator"}, op : BinaryOperators, left : ShortPhrases, right : ShortPhrases]
    \cup [fn : {"evalExp"}, exp : Exps]
    \cup [fn : {"NEAR"}, range : RangeArgs, sameLine : BoolArgs]
    \cup [fn : {"BEYOND"}, distance : DistanceArgs, sameLine : BoolArgs]
    \cup [fn : {"REGEX"}, regex : RegexStrings]

MatchInit ==
  /\ pc = "matching"
  /\ family = "none"
  /\ config = <<>>
  /\ tree = <<>>
  /\ stack = <<>>
  /\ calls = <<>>
  /\ entries = <<>>
  /\ result = <<>>
  /\ call \in MatchCalls
  /\ outcome = <<>>

\* The call has been made and has returned or thrown.
Made(fn) == pc = "matching" /\ call.fn = fn /\ outcome # <<>>

CallAsEscaped ==
  /\ pc = "matching" /\ call.fn = "asEscaped" /\ outcome = <<>>
  /\ outcome' = << Returned(asEscaped(call.phrase)) >>
  /\ UNCHANGED <<pc, family, config, tree, stack, calls, entries, result, call>>

CallEvalExp ==
  /\ pc = "matching" /\ call.fn = "evalExp" /\ outcome = <<>>
  /\ outcome' = << Returned(evalExp(call.exp)) >>
  /\ UNCHANGED <<pc, family, config, tree, stack, calls, entries, result, call>>

CallNEAR ==
  /\ pc = "matching" /\ call.fn = "NEAR" /\ outcome = <<>>
  /\ outcome' = << NEAR(call.range, call.sameLine) >>
  /\ UNCHANGED <<pc, family, config, tree, stack, calls, entries, result, call>>

CallBEYOND ==
  /\ pc = "matching" /\ call.fn = "BEYOND" /\ outcome = <<>>
  /\ outcome' = << BEYOND(call.distance, call.sameLine) >>
  /\ UNCHANGED <<pc, family, config, tree, stack, calls, entries, result, call>>

CallREGEX ==
  /\ pc = "matching" /\ call.fn = "REGEX" /\ outcome = <<>>
  /\ outcome' = << REGEX(call.regex) >>
  /\ UNCHANGED <<pc, family, config, tree, stack, calls, entries, result, call>>

\* One of AND, EXCLUDING, WITH and WITHOUT, called with two phrases.
CallOperator ==
  /\ pc = "matching" /\ call.fn = "operator" /\ outcome = <<>>
  /\ outcome' = << Returned(CallOp(call.op, call.left, call.right)) >>
  /\ UNCHANGED <<pc, family, config, tree, stack, calls, entries, result, call>>

MatchNext ==
  CallAsEscaped \/ CallEvalExp \/ CallOperator \/ CallNEAR \/ CallBEYOND \/ CallREGEX

MatchSpec == MatchInit /\ [][MatchNext]_vars

(***************************************************************************)
(* apply and extend of a DepthDelta strategy, called on their own with the *)
(* arguments yieldEntries and entriesByChildren call them with.            *)
(***************************************************************************)
DepthDeltaIds == {id \in DOMAIN Instances : isDepthDelta(id)}

\* The strategies of the ancestors, oldest first.
Stacks == UNION {[1..n -> DOMAIN Instances] : n \in 0..MaxStack}

\* The searchRange of the state: the default, that of fixedA, and that one
\* level below fixedA under the default searchDelta.
SearchRanges == {entryDefaults.searchRange, 8192, 8192 + DEFAULTS.searchDelta}

\* The state of an entry below the given ancestors.
StateOf(strategyStack, searchRange) ==
  [context |-> contextDefaults,
   entry |-> Merge(entryDefaults, "searchRange" :> searchRange),
   strategyStack |-> strategyStack, depth |-> Len(strategyStack),
   reversedTextIteration |-> FALSE]

StrategyCalls ==
  [fn : {"apply", "extend"}, self : DepthDeltaIds, strategyStack : Stacks,
   searchRange : SearchRanges]

StrategyInit ==
  /\ pc = "strategy"
  /\ family = "none"
  /\ config = <<>>
  /\ tree = <<>>
  /\ stack = <<>>
  /\ calls = <<>>
  /\ entries = <<>>
  /\ result = <<>>
  /\ call \in StrategyCalls
  /\ outcome = <<>>

\* The call has been made and has returned.
Applied(fn) == pc = "strategy" /\ call.fn = fn /\ outcome # <<>>

\* strategy.apply(state, strategy.config)
CallApply ==
  /\ pc = "strategy" /\ call.fn = "apply" /\ outcome = <<>>
  /\ LET state == StateOf(call.strategyStack, call.searchRange)
     IN  outcome' = << Returned(DepthDeltaApply(call.self, state,
                                                Instances[call.self].config)) >>
  /\ UNCHANGED <<pc, family, config, tree, stack, calls, entries, result, call>>

\* strategy.extend(intermediateState, curConfig), with the curConfig that
\* apply returned.
CallExtend ==
  /\ pc = "strategy" /\ call.fn = "extend" /\ outcome = <<>>
  /\ LET state == StateOf(call.strategyStack, call.searchRange)
         curConfig == DepthDeltaApply(call.self, state, Instances[call.self].config)
         intermediateState ==
           [state EXCEPT !.entry = StrategyEntry(call.self, state, curConfig),
                         !.context = StrategyContext(call.self, state, curConfig)]
     IN  outcome' = << Returned(DepthDeltaExtend(call.self, intermediateState, curConfig)) >>
  /\ UNCHANGED <<pc, family, config, tree, stack, calls, entries, result, call>>

StrategyNext == CallApply \/ CallExtend

StrategySpec == StrategyInit /\ [][StrategyNext]_vars

(***************************************************************************)
(* Vocabulary of the properties.                                           *)
(***************************************************************************)
Calls == {calls[i] : i \in 1..Len(calls)}

\* The yieldEntries call that processed the entry at `path`.
CallOf(path) == calls[CHOOSE i \in 1..Len(calls) : calls[i].entry.path = path]

IsRoot(path) == Len(path) = 1

ParentOf(path) == SubSeq(path, 1, Len(path) - 1)

\* The records yielded so far that come from the texts of the entry at `path`.
RecordsOf(path) == SelectSeq(entries, LAMBDA r : r.text.node = path)

RecordSetOf(path) == {entries[i] : i \in {j \in 1..Len(entries) : entries[j].text.node = path}}

\* The entry at `path` has been read and its own records have been yielded.
TextYielded(path) ==
  /\ path \in DOMAIN tree
  /\ \A i \in 1..Len(stack) : ~(stack[i].kind = "text" /\ stack[i].path = path)

\* exports.yieldEntries and exports.entriesByChildren as functions of the
\* entries read: the records that the entry at `path`, and the sub-entries
\* of `path` from the j-th on, yield when built from the given state.
RECURSIVE yieldEntriesOf(_, _, _, _)
RECURSIVE entriesByChildrenOf(_, _, _, _, _)
yieldEntriesOf(path, parent, state, defaultsForEntry) ==
  LET raw == tree[path]
      entry == IF IsRoot(path) THEN raw
               ELSE NewEntry(parent.name, parent.subOp, parent.keys, raw)
      loc == YieldEntriesLocals(entry, state, defaultsForEntry)
      nextState == NextState(state, [strategy |-> loc.strategy,
                                     config |-> loc.curConfig,
                                     context |-> loc.byText.context,
                                     keys |-> loc.composedKeys])
      byChildren ==
        entriesByChildrenOf(path, 1,
                            [name |-> loc.name, subOp |-> loc.subOp, keys |-> loc.composedKeys],
                            nextState, ChildEntryConfig(loc.strategy, loc.subOp))
  IN  EmitOrder(state.reversedTextIteration, loc.byText.entries, byChildren)

entriesByChildrenOf(path, j, parent, nextState, childEntryConfig) ==
  IF j > tree[path].nSub THEN <<>>
  ELSE yieldEntriesOf(Append(path, j), parent, nextState, childEntryConfig)
         \o entriesByChildrenOf(path, j + 1, parent, nextState, childEntryConfig)

\* The entries of the lorebook exports.buildEntries returns for the entries
\* read, from the i-th root entry on, under the given setting of
\* reversedTextIteration.
RECURSIVE buildEntriesOf(_, _)
buildEntriesOf(reversedTextIteration, i) ==
  IF i > config.nRoots THEN <<>>
  ELSE yieldEntriesOf(<<i>>, NoParent,
                      InitState(config.strategy, reversedTextIteration),
                      InitEntryConfig(config))
         \o buildEntriesOf(reversedTextIteration, i + 1)

\* The position of a text string in the document: the entry, then the string.
ProperPrefix(p, q) == Len(p) < Len(q) /\ SubSeq(q, 1, Len(p)) = p

\* The entry at p comes before the entry at q in document order: it is an
\* ancestor of q, or on an earlier branch.
PathBefore(p, q) ==
  \/ ProperPrefix(p, q)
  \/ \E k \in 1..Len(p) :
       /\ k <= Len(q)
       /\ SubSeq(p, 1, k - 1) = SubSeq(q, 1, k - 1)
       /\ p[k] < q[k]

Reverse(seq) == [i \in 1..Len(seq) |-> seq[Len(seq) + 1 - i]]

\* A list of key phrases starts with the given tokens.
StartsWith(tokens, prefix) ==
  /\ Len(tokens) >= Len(prefix)
  /\ SubSeq(tokens, 1, Len(prefix)) = prefix

(***************************************************************************)
(* C1.  When a node's inherited key list P and its own key list C are both *)
(* non-empty, its effective key list has exactly |C| keys (never |C| x |P| *)
(* and never one), and so has every record the node emits.                 *)
(***************************************************************************)
C1_KeyCompositionCount ==
  \A c \in Calls :
    (Len(c.theBaseKeys) > 0 /\ Len(c.entry.keys) > 0) =>
      /\ Len(c.composedKeys) = Len(c.entry.keys)
      /\ Len(c.keys) = Len(c.entry.keys)
      /\ \A r \in RecordSetOf(c.entry.path) : Len(r.keys) = Len(c.entry.keys)

\* Three own keys under a two-key parent: the record has three keys.
C1_Witness ==
  \E c \in Calls :
    /\ Len(c.theBaseKeys) = 2
    /\ Len(c.entry.keys) = 3
    /\ \E r \in RecordSetOf(c.entry.path) : Len(r.keys) = 3

(***************************************************************************)
(* C2.  When inherited and own keys are both non-empty, the i-th effective *)
(* key is the node's baseOp applied to the i-th own key as the left        *)
(* operand and, as the right operand, the alternation of all inherited     *)
(* keys, or the single inherited key itself when there is exactly one.     *)
(* The compiled pattern therefore begins with the own key's fragment.      *)
(***************************************************************************)
C2_KeyCompositionShape ==
  \A c \in Calls :
    (Len(c.theBaseKeys) > 0 /\ Len(c.entry.keys) > 0) =>
      LET right == IF Len(c.theBaseKeys) = 1 THEN c.theBaseKeys[1] ELSE ALT(c.theBaseKeys)
      IN  \A i \in 1..Len(c.entry.keys) :
            /\ i <= Len(c.composedKeys)
            /\ c.composedKeys[i] = CallOp(c.baseOp, c.entry.keys[i], right)
            /\ StartsWith(c.composedKeys[i].pattern, asEscaped(c.entry.keys[i]).pattern)

\* A node composed its second own key with a non-default baseOp against an
\* alternation of two inherited keys, and another against a single key.
C2_Witness ==
  /\ \E c \in Calls :
       /\ Len(c.theBaseKeys) = 2
       /\ Len(c.entry.keys) = 2
       /\ c.baseOp = "WITH"
       /\ RecordSetOf(c.entry.path) # {}
  /\ \E c \in Calls :
       /\ Len(c.theBaseKeys) = 1
       /\ Len(c.entry.keys) > 0

(***************************************************************************)
(* C3.  If a node's inherited key list is empty its effective keys are its *)
(* own keys, and if its own key list is empty its effective keys are the   *)
(* inherited keys: the same elements in the same order.  A sub-entry with  *)
(* keys [] and no baseKeys of its own emits the compiled keys of its       *)
(* parent.                                                                 *)
(***************************************************************************)
C3_EmptySidePassThrough ==
  \A c \in Calls :
    /\ Len(c.theBaseKeys) = 0 => c.composedKeys = c.entry.keys
    /\ Len(c.entry.keys) = 0 => c.composedKeys = c.theBaseKeys
    /\ ( /\ ~IsRoot(c.entry.path)
         /\ Len(c.entry.keys) = 0
         /\ tree[c.entry.path].baseKeys.kind = "absent" ) =>
         /\ c.keys = CallOf(ParentOf(c.entry.path)).keys
         /\ \A r \in RecordSetOf(c.entry.path) :
              r.keys = CallOf(ParentOf(c.entry.path)).keys

\* A sub-entry without keys under a parent with two keys has yielded a
\* record with the parent's two keys, and the parent, a root entry, has
\* yielded its own keys as they are.
C3_Witness ==
  \E c \in Calls :
    /\ ~IsRoot(c.entry.path)
    /\ Len(c.entry.keys) = 0
    /\ Len(c.theBaseKeys) = 2
    /\ \E r \in RecordSetOf(c.entry.path) : Len(r.keys) = 2
    /\ \E p \in Calls :
         /\ p.entry.path = ParentOf(c.entry.path)
         /\ Len(p.theBaseKeys) = 0
         /\ RecordSetOf(p.entry.path) # {}

(***************************************************************************)
(* C4.  As claimed: whenever a node's effective keys are empty, every      *)
(* record it emits has forceActivation = TRUE, whatever the configuration  *)
(* of the node's resolved strategy says.                                   *)
(***************************************************************************)
C4_ForcedOverEveryExplicitValue ==
  \A c \in Calls :
    Len(c.keys) = 0 => \A r \in RecordSetOf(c.entry.path) : r.forceActivation = TRUE

\* The configuration of a strategy instance sets entry.forceActivation.
SetsForceActivation(strategy) ==
  /\ "entry" \in DOMAIN Instances[strategy].config
  /\ "forceActivation" \in DOMAIN Instances[strategy].config.entry

(***************************************************************************)
(* C4, amended.  Whenever a node's effective keys are empty, every record  *)
(* it emits has forceActivation = TRUE, overriding the value inherited     *)
(* from its ancestors, unless the configuration of the node's resolved     *)
(* strategy sets entry.forceActivation: then the records carry that        *)
(* configured value.                                                       *)
(***************************************************************************)
C4_ForcedUnlessStrategySetsIt ==
  \A c \in Calls :
    Len(c.keys) = 0 =>
      \A r \in RecordSetOf(c.entry.path) :
        r.forceActivation =
          IF SetsForceActivation(c.strategy)
          THEN Instances[c.strategy].config.entry.forceActivation
          ELSE TRUE

\* A node without keys, below a parent whose strategy configured
\* forceActivation: false, resolved a strategy that does not set it and
\* yielded a forced record; and a node without keys whose own strategy sets
\* forceActivation: false yielded a record that is not forced.
C4_Witness ==
  /\ \E c \in Calls :
       /\ Len(c.keys) = 0
       /\ ~IsRoot(c.entry.path)
       /\ SetsForceActivation(CallOf(ParentOf(c.entry.path)).strategy)
       /\ ~SetsForceActivation(c.strategy)
       /\ \E r \in RecordSetOf(c.entry.path) : r.forceActivation = TRUE
  /\ \E c \in Calls :
       /\ Len(c.keys) = 0
       /\ SetsForceActivation(c.strategy)
       /\ \E r \in RecordSetOf(c.entry.path) : r.forceActivation = FALSE

(***************************************************************************)
(* C5.  A node whose effective keys are empty and whose resolved strategy  *)
(* configuration does not set entry.forceActivation emits only records     *)
(* with forceActivation = TRUE and an empty keys list; a lone root entry   *)
(* with keys [] and one text gives exactly one such record.                *)
(***************************************************************************)
C5_NoKeysForcesActivation ==
  /\ \A c \in Calls :
       (Len(c.keys) = 0 /\ ~SetsForceActivation(c.strategy)) =>
         \A r \in RecordSetOf(c.entry.path) :
           r.forceActivation = TRUE /\ r.keys = <<>>
  /\ ( /\ pc = "done"
       /\ DOMAIN tree = {<<1>>}
       /\ tree[<<1>>].keys = <<>>
       /\ tree[<<1>>].text.kind = "scalar"
       /\ tree[<<1>>].strategy = "none"
       /\ config.strategy = "none" ) =>
       /\ Len(result[1].entries) = 1
       /\ result[1].entries[1].forceActivation = TRUE
       /\ result[1].entries[1].keys = <<>>

\* The build of a lone root entry with keys [] and one text has returned;
\* the state the entry was processed with had forceActivation = FALSE.
C5_Witness ==
  /\ pc = "done"
  /\ DOMAIN tree = {<<1>>}
  /\ tree[<<1>>].keys = <<>>
  /\ tree[<<1>>].text.kind = "scalar"
  /\ CallOf(<<1>>).state.entry.forceActivation = FALSE
  /\ Len(result[1].entries) = 1
  /\ result[1].entries[1].forceActivation = TRUE

\* The entry at `path` and all its ancestors resolved the strategy instance s.
ChainOf(c, s) ==
  /\ c.strategy = s
  /\ c.state.strategyStack = [i \in 1..(Len(c.entry.path) - 1) |-> s]

\* The root entry above the entry at `path`.
RootOf(path) == SubSeq(path, 1, 1)

\* The delta a DepthDelta instance applies when no ancestor configures one:
\* its configured value, otherwise the default of +1 and +1024.
PriorityDeltaOf(s) ==
  IF "priorityDelta" \in DOMAIN Instances[s].config THEN Instances[s].config.priorityDelta
  ELSE 1

SearchDeltaOf(s) ==
  IF "searchDelta" \in DOMAIN Instances[s].config THEN Instances[s].config.searchDelta
  ELSE 1024

SetsDeltaTargets(s) ==
  /\ "context" \in DOMAIN Instances[s].config
  /\ "budgetPriority" \in DOMAIN Instances[s].config.context
  /\ "entry" \in DOMAIN Instances[s].config
  /\ "searchRange" \in DOMAIN Instances[s].config.entry

(***************************************************************************)
(* C7.  Re-application is detected by instance identity.  A sub-entry      *)
(* whose DepthDelta instance (with explicit budgetPriority / searchRange)  *)
(* is not in the stack is a first application, even below an instance      *)
(* constructed with an equal configuration: its records carry the          *)
(* configured values.  A sub-entry reusing its parent's very instance      *)
(* carries the parent's values plus the deltas.                            *)
(***************************************************************************)
C7_ReapplicationByIdentity ==
  \A c \in Calls :
    (~IsRoot(c.entry.path) /\ isDepthDelta(c.strategy) /\ SetsDeltaTargets(c.strategy)) =>
      LET p == CallOf(ParentOf(c.entry.path))
          mine == Instances[c.strategy].config
          stacked == \E i \in 1..Len(c.state.strategyStack) :
                       c.state.strategyStack[i] = c.strategy
      IN  \A r \in RecordSetOf(c.entry.path) :
            /\ ~stacked =>
                 /\ r.contextConfig.budgetPriority = mine.context.budgetPriority
                 /\ r.searchRange = mine.entry.searchRange
            /\ p.strategy = c.strategy =>
                 \A rp \in RecordSetOf(p.entry.path) :
                   /\ r.contextConfig.budgetPriority =
                        rp.contextConfig.budgetPriority + PriorityDeltaOf(c.strategy)
                   /\ r.searchRange = rp.searchRange + SearchDeltaOf(c.strategy)

\* Below a parent that reuses deltaA at depth 1 (priority 501), a
\* sub-entry with the equally configured deltaB yielded a record with the
\* configured priority 500 and search range 2000.
C7_Witness ==
  \E c \in Calls :
    /\ Len(c.entry.path) = 3
    /\ c.strategy = "deltaB"
    /\ Instances["deltaB"].config = Instances["deltaA"].config
    /\ c.state.strategyStack = <<"deltaA", "deltaA">>
    /\ \E rp \in RecordSetOf(ParentOf(c.entry.path)) : rp.contextConfig.budgetPriority = 501
    /\ \E r \in RecordSetOf(c.entry.path) :
         r.contextConfig.budgetPriority = 500 /\ r.searchRange = 2000

(***************************************************************************)
(* C8.  Under the Fixed strategy apply returns the configuration           *)
(* unchanged and extend changes nothing for the sub-entries, so in a tree  *)
(* whose nodes all resolve to one Fixed instance every record at every     *)
(* depth has the same contextConfig and the same searchRange.              *)
(***************************************************************************)
C8_FixedIsFlat ==
  /\ \A c \in Calls :
       Instances[c.strategy].type = "Fixed" => c.curConfig = Instances[c.strategy].config
  /\ \A s \in DOMAIN Instances :
       (Instances[s].type = "Fixed" /\ \A c \in Calls : c.strategy = s) =>
         \A i, j \in 1..Len(entries) :
           /\ entries[i].contextConfig = entries[j].contextConfig
           /\ entries[i].searchRange = entries[j].searchRange

\* Three nested levels resolved the Fixed instance with overrides, and all
\* three have yielded their record.
C8_Witness ==
  /\ calls # <<>>
  /\ \A c \in Calls : c.strategy = "fixedA"
  /\ \E c \in Calls : Len(c.entry.path) = 3 /\ RecordSetOf(c.entry.path) # {}
  /\ Len(entries) >= 3
  /\ entries[1].contextConfig.budgetPriority = 300

\* The strategy the entry at `path` is to be processed with.
RECURSIVE ExpectedStrategy(_)
ExpectedStrategy(path) ==
  IF tree[path].strategy # "none" THEN tree[path].strategy
  ELSE IF IsRoot(path)
       THEN (IF config.strategy # "none" THEN config.strategy ELSE "default")
       ELSE ExpectedStrategy(ParentOf(path))

(***************************************************************************)
(* C9.  A node with no strategy of its own is processed with the strategy  *)
(* instance its parent resolved, at every depth; a root node with no       *)
(* strategy uses the builder configuration's strategy, or the default      *)
(* Fixed strategy with no overrides when none is configured.               *)
(***************************************************************************)
C9_StrategyInheritance ==
  /\ \A c \in Calls :
       /\ c.strategy = ExpectedStrategy(c.entry.path)
       /\ (~IsRoot(c.entry.path) /\ tree[c.entry.path].strategy = "none") =>
            /\ c.strategy = CallOf(ParentOf(c.entry.path)).strategy
            /\ c.state.strategyStack[Len(c.state.strategyStack)] = c.strategy
  /\ Instances[tlgBuildableDefaults.strategy] = [type |-> "Fixed", config |-> EmptyObj]

\* With a configured builder strategy, a root entry without a strategy
\* resolved it; and below it a node two levels below a sub-entry with its
\* own strategy, with no strategy in between, resolved that sub-entry's.
C9_Witness ==
  /\ config.strategy = "deltaA"
  /\ \E c \in Calls :
       /\ IsRoot(c.entry.path)
       /\ tree[c.entry.path].strategy = "none"
       /\ c.strategy = "deltaA"
  /\ \E c \in Calls :
       /\ Len(c.entry.path) = 4
       /\ tree[c.entry.path].strategy = "none"
       /\ tree[ParentOf(c.entry.path)].strategy = "none"
       /\ tree[ParentOf(ParentOf(c.entry.path))].strategy = "fixedA"
       /\ tree[RootOf(c.entry.path)].strategy = "none"
       /\ c.strategy = "fixedA"

\* The number of text strings of an entry.
TextCount(entry) ==
  CASE entry.text.kind = "absent" -> 0
    [] entry.text.kind = "scalar" -> 1
    [] OTHER -> entry.text.n

\* The names of the entry at `path` and of its ancestors, joined by " - ".
RECURSIVE FullName(_)
FullName(path) ==
  IF IsRoot(path) THEN tree[path].name
  ELSE FullName(ParentOf(path)) \o <<" - ">> \o tree[path].name

(***************************************************************************)
(* C10.  Per node, the number of own records equals the number of its text *)
(* strings (a scalar text counts as one, an absent text as zero); when     *)
(* N > 1 the string at input position i gets displayName = name +          *)
(* " (i of N)", and when N = 1 the displayName is the name alone.          *)
(***************************************************************************)
C10_RecordsPerText ==
  \A path \in DOMAIN tree :
    LET n == TextCount(tree[path])
        own == RecordsOf(path)
    IN  IF ~TextYielded(path) THEN own = <<>>
        ELSE /\ Len(own) = n
             /\ \A i \in 1..n :
                  \E j \in 1..n :
                    /\ own[j].text = [node |-> path, pos |-> i]
                    /\ own[j].displayName =
                         IF n = 1 THEN FullName(path)
                         ELSE FullName(path) \o <<" (", ToString(i), " of ", ToString(n), ")">>

\* A build with the reversed toggle has returned three records for a root
\* entry with three texts, the first being "(3 of 3)", and none for a root
\* entry with neither text nor sub-entries.
C10_Witness ==
  /\ pc = "done"
  /\ config.reversedTextIteration
  /\ DOMAIN tree = {<<1>>, <<2>>}
  /\ TextCount(tree[<<1>>]) = 3
  /\ tree[<<2>>].text.kind = "absent"
  /\ Len(entries) = 3
  /\ entries[1].displayName = <<"E", "1", " (", "3", " of ", "3", ")">>

(***************************************************************************)
(* C11.  With the reversed toggle off, the records come in document order: *)
(* root entries in input order, the own text records of every node in text *)
(* order and before every record of its descendants, and sub-entries       *)
(* depth-first in sibling order.                                           *)
(***************************************************************************)
C11_DocumentOrder ==
  ~config.reversedTextIteration =>
    /\ \A i, j \in 1..Len(entries) :
         i < j =>
           LET a == entries[i].text
               b == entries[j].text
           IN  IF a.node = b.node THEN a.pos < b.pos ELSE PathBefore(a.node, b.node)
    /\ pc = "done" => result[1].entries = entries

\* A build with the toggle off has returned the three records of a root
\* entry, then the record of its sub-entry, then that of a second root entry.
C11_Witness ==
  /\ pc = "done"
  /\ ~config.reversedTextIteration
  /\ DOMAIN tree = {<<1>>, <<1, 1>>, <<2>>}
  /\ [i \in 1..Len(result[1].entries) |-> result[1].entries[i].text] =
       << [node |-> <<1>>, pos |-> 1], [node |-> <<1>>, pos |-> 2],
          [node |-> <<1>>, pos |-> 3], [node |-> <<1, 1>>, pos |-> 1],
          [node |-> <<2>>, pos |-> 1] >>

(***************************************************************************)
(* C12.  With the reversed toggle on, every record of a node's sub-entries *)
(* comes before the node's own text records, and the own records come in   *)
(* descending text position, each named by the index it has in input       *)
(* order; for a single node with N texts the output is exactly the reverse *)
(* of the output with the toggle off.                                      *)
(***************************************************************************)
C12_ReversedOrder ==
  config.reversedTextIteration =>
    /\ \A i, j \in 1..Len(entries) :
         i < j =>
           LET a == entries[i].text
               b == entries[j].text
           IN  /\ a.node = b.node => a.pos > b.pos
               /\ ~ProperPrefix(a.node, b.node)
    /\ \A i \in 1..Len(entries) :
         LET t == entries[i].text
             n == Len(asArray(t.node, tree[t.node].text))
         IN  n > 1 =>
               entries[i].displayName =
                 CallOf(t.node).name \o <<" (", ToString(t.pos), " of ", ToString(n), ")">>
    /\ (pc = "done" /\ DOMAIN tree = {<<1>>}) =>
         result[1].entries = Reverse(buildEntriesOf(FALSE, 1))

\* A reversed build has returned: the record of a sub-entry first, then the
\* three records of its parent, "(3 of 3)" first and "(1 of 3)" last.
C12_Witness ==
  /\ pc = "done"
  /\ config.reversedTextIteration
  /\ DOMAIN tree = {<<1>>, <<1, 1>>}
  /\ Len(result[1].entries) = 4
  /\ result[1].entries[1].text.node = <<1, 1>>
  /\ result[1].entries[2].displayName = <<"E", "1", " (", "3", " of ", "3", ")">>
  /\ result[1].entries[4].displayName = <<"E", "1", " (", "1", " of ", "3", ")">>

\* The same records, each as often, in some order.
IsPermutation(s, t) ==
  /\ Len(s) = Len(t)
  /\ \A i \in 1..Len(s) :
       Cardinality({k \in 1..Len(s) : s[k] = s[i]}) =
         Cardinality({k \in 1..Len(t) : t[k] = s[i]})

(***************************************************************************)
(* C13.  The reversed toggle affects only the order: the record list built *)
(* from an input tree with the toggle on is a permutation of the list      *)
(* built with it off, every record being the same in displayName, text,    *)
(* keys, contextConfig and entry settings.                                 *)
(***************************************************************************)
C13_ReversedIsPermutation ==
  pc = "done" =>
    IsPermutation(result[1].entries, buildEntriesOf(~config.reversedTextIteration, 1))

\* A build has returned at least three records, and the build of the same
\* entries under the other setting gives them in another order.
C13_Witness ==
  /\ pc = "done"
  /\ Len(result[1].entries) >= 3
  /\ buildEntriesOf(TRUE, 1) # buildEntriesOf(FALSE, 1)
  /\ \E c \in Calls : isDepthDelta(c.strategy) /\ ~IsRoot(c.entry.path)

(***************************************************************************)
(* C14.  Every record of a node with k ancestors has a displayName that    *)
(* begins with the names of its ancestors and itself joined by " - " in    *)
(* root-to-node order; the prefix taken from the parent is the parent's    *)
(* full prefixed name and never holds the parent's "(i of N)" suffix.      *)
(***************************************************************************)
C14_NamePrefix ==
  \A c \in Calls :
    LET path == c.entry.path
    IN  /\ c.name = FullName(path)
        /\ ~IsRoot(path) =>
             c.name = CallOf(ParentOf(path)).name \o <<" - ">> \o tree[path].name
        /\ " (" \notin {c.name[i] : i \in 1..Len(c.name)}
        /\ \A r \in RecordSetOf(path) : StartsWith(r.displayName, c.name)

\* A sub-entry two levels below a root entry yielded a record, and its
\* parent yielded records with an "(i of N)" suffix.
C14_Witness ==
  \E c \in Calls :
    /\ Len(c.entry.path) = 3
    /\ \E r \in RecordSetOf(c.entry.path) :
         StartsWith(r.displayName, <<"E", "1", " - ", "E", "1", " - ", "E", "1">>)
    /\ \E r \in RecordSetOf(ParentOf(c.entry.path)) :
         " (" \in {r.displayName[i] : i \in 1..Len(r.displayName)}

(***************************************************************************)
(* C15.  A failure while a node is processed (a node that lacks keys)      *)
(* aborts the whole build: buildEntries throws and returns no lorebook,    *)
(* never the records produced before the failing node; and a build that    *)
(* returns has processed no node that lacks keys.                          *)
(***************************************************************************)
C15_FailureAbortsBuild ==
  /\ pc = "thrown" => result = <<>>
  /\ result # <<>> => (pc = "done" /\ \A path \in DOMAIN tree : tree[path].hasKeys)
  /\ pc = "thrown" => ~ENABLED Next

\* The build threw at a sub-entry after its parent had yielded a record.
C15_Witness ==
  /\ pc = "thrown"
  /\ Len(entries) > 0
  /\ Len(Head(stack).path) = 2
  /\ result = <<>>

(***************************************************************************)
(* C16.  asEscaped is idempotent: an escaped phrase is returned as it is,  *)
(* so asEscaped(asEscaped(p)) = asEscaped(p) for every phrase p, a string, *)
(* a native pattern, a phrase expression or an escaped phrase.             *)
(***************************************************************************)
C16_AsEscapedIdempotent ==
  Made("asEscaped") =>
    LET once == outcome[1].value
    IN  /\ isEscaped(once)
        /\ asEscaped(once) = once
        /\ asEscaped(asEscaped(call.phrase)) = asEscaped(call.phrase)
        /\ isEscaped(call.phrase) => once = call.phrase

\* asEscaped has converted an expression whose left operand is an escaped
\* phrase and whose right operand is an expression.
C16_Witness ==
  /\ Made("asEscaped")
  /\ isPhraseExp(call.phrase)
  /\ isEscaped(call.phrase.left)
  /\ isPhraseExp(call.phrase.right)
  /\ Len(outcome[1].value.pattern) > Len(call.phrase.left.pattern)

\* The sequence `part` occurs in `whole`.
Occurs(part, whole) ==
  \E k \in 0..(Len(whole) - Len(part)) : SubSeq(whole, k + 1, k + Len(part)) = part

(***************************************************************************)
(* C17.  Evaluating [l, OP, r] with OP an extended operator (NEAR, BEYOND) *)
(* referenced without arguments yields the pattern of OP()(l, r), which is *)
(* the pattern of the operator built with the default options: distance    *)
(* 10, that is the range 0..10, and sameLine = true.                       *)
(***************************************************************************)
C17_ExtendedOperatorDefaults ==
  (Made("evalExp") /\ isExtBinaryOperator(call.exp.op)) =>
    LET op == call.exp.op
        l == call.exp.left
        r == call.exp.right
        true == [kind |-> "boolean", b |-> TRUE]
    IN  /\ outcome[1].value = ApplyMatcher(CallExt(op, Undefined, Undefined).value, l, r)
        /\ outcome[1].value = ApplyMatcher(CallExt(op, Num(10), true).value, l, r)
        /\ outcome[1].value =
             ApplyMatcher([op |-> op, lo |-> 0, hi |-> 10, sameLine |-> TRUE], l, r)
        /\ Occurs(NWLB \o <<"+\\w+){", "0", ",", "10", "}?\\W+">>, outcome[1].value.pattern)

\* evalExp has evaluated an expression with NEAR given as it is exported.
C17_Witness ==
  /\ Made("evalExp")
  /\ call.exp.op = "NEAR"
  /\ call.exp.left.kind = "string"
  /\ call.exp.right.kind = "regexp"
  /\ Occurs(<<"0", ",", "10">>, outcome[1].value.pattern)

(***************************************************************************)
(* C18.  NEAR normalises its range: a number <= 0 gives the zero-width     *)
(* range {0,0}, a positive number n gives {0,n}, a two-element array [a,b] *)
(* gives {min(a,b),max(a,b)} in whichever order it is written, and any     *)
(* other value (an array of another length, neither number nor array)      *)
(* throws a TypeError when the operator is constructed.                    *)
(***************************************************************************)
C18_NearRange ==
  Made("NEAR") =>
    LET range == call.range
        out == outcome[1]
        yields(lo, hi) ==
          /\ ~out.threw
          /\ out.value.lo = lo
          /\ out.value.hi = hi
          /\ Occurs(<<"+\\w+){", ToString(lo), ",", ToString(hi), "}?\\W+">>,
                    ApplyMatcher(out.value, LIT(<<"a">>), LIT(<<"b">>)).pattern)
    IN  CASE range.kind = "number" /\ range.n <= 0 -> yields(0, 0)
          [] range.kind = "number" /\ range.n > 0 -> yields(0, range.n)
          [] range.kind = "array" /\ Len(range.items) = 2 ->
               LET a == range.items[1]
                   b == range.items[2]
               IN  yields(IF a < b THEN a ELSE b, IF a < b THEN b ELSE a)
          [] range.kind = "undefined" -> yields(0, 10)
          [] OTHER -> out = Thrown("TypeError")

\* NEAR was constructed with a range written upper bound first.
C18_Witness ==
  /\ Made("NEAR")
  /\ call.range = Arr(<<2, 1>>)
  /\ ~outcome[1].threw
  /\ outcome[1].value.lo = 1
  /\ outcome[1].value.hi = 2

\* The flags a /pattern/flags literal of the language may carry.
RegExpFlags == {"d", "g", "i", "m", "s", "u", "y"}

\* The last delimiter of a string with a second delimiter.
Closing(regex) == CHOOSE j \in 2..Len(regex) :
                    regex[j] = "/" /\ \A k \in (j + 1)..Len(regex) : regex[k] # "/"

\* The string is delimiter-wrapped, /pattern/flags: it starts with a
\* delimiter and has a second one, followed by flags only.
Wrapped(regex) ==
  /\ Len(regex) >= 2
  /\ regex[1] = "/"
  /\ \E j \in 2..Len(regex) : regex[j] = "/"
  /\ \A k \in (Closing(regex) + 1)..Len(regex) : regex[k] \in RegExpFlags

(***************************************************************************)
(* C19.  As claimed: REGEX returns an escaped phrase whose fragment is the *)
(* text between the delimiters of a /pattern/flags string, the flags       *)
(* discarded, whatever the flags are, and throws only for a string that is *)
(* not delimiter-wrapped.                                                  *)
(***************************************************************************)
C19_ImportsEveryWrappedString ==
  Made("REGEX") =>
    outcome[1] = IF Wrapped(call.regex)
                 THEN Returned(toEscaped(SubSeq(call.regex, 2, Closing(call.regex) - 1)))
                 ELSE Thrown("Error")

(***************************************************************************)
(* C19, amended.  REGEX returns an escaped phrase whose fragment is the    *)
(* text between the delimiters of a /pattern/flags string, the flags       *)
(* discarded, when the flags are among i, s, m and u and the pattern has   *)
(* no line break; for every other string, delimiter-wrapped or not, it     *)
(* throws an error and returns no phrase.                                  *)
(***************************************************************************)
C19_ImportsNovelAIStrings ==
  Made("REGEX") =>
    LET regex == call.regex
        accepted ==
          /\ Wrapped(regex)
          /\ \A k \in (Closing(regex) + 1)..Len(regex) : regex[k] \in {"i", "s", "m", "u"}
          /\ \A k \in 2..(Closing(regex) - 1) : regex[k] \notin {"\n", "\r"}
    IN  outcome[1] = IF accepted
                     THEN Returned(toEscaped(SubSeq(regex, 2, Closing(regex) - 1)))
                     ELSE Thrown("Error")

\* REGEX has imported "/a/i" as the fragment "a".
C19_Witness ==
  /\ Made("REGEX")
  /\ call.regex = <<"/", "a", "/", "i">>
  /\ outcome[1] = Returned(toEscaped(<<"a">>))

\* The tokens of a piece of text.
Tokens(text) == {text[i] : i \in 1..Len(text)}

(***************************************************************************)
(* C20.  Every key string of every record is "/" + fragment + "/i": the    *)
(* flags of native patterns and of imported /pattern/flags strings are     *)
(* discarded, a native pattern contributes exactly its source text as the  *)
(* fragment, and the only flag emitted is i.                               *)
(***************************************************************************)
C20_KeysAreCaseInsensitivePatterns ==
  \A c \in Calls :
    /\ \A r \in RecordSetOf(c.entry.path) : r.keys = c.keys
    /\ Len(c.keys) = Len(c.composedKeys)
    /\ \A i \in 1..Len(c.keys) :
         LET key == c.keys[i]
         IN  /\ Len(key) >= 2
             /\ key[1] = "/"
             /\ key[Len(key)] = "/i"
             /\ Tokens(SubSeq(key, 2, Len(key) - 1)) \cap {"/", "/i", "g", "s", "m"} = {}
    /\ \A i \in 1..Len(c.entry.keys) :
         LET own == tree[c.entry.path].keys[i]
             depth == Len(c.entry.path) - 1
             fragment == SubSeq(c.keys[i], 2, Len(c.keys[i]) - 1)
         IN  /\ own.kind = "regexp" =>
                  /\ own.flags # <<>>
                  /\ StartsWith(fragment, own.source)
                  /\ Len(c.theBaseKeys) = 0 => fragment = own.source
             /\ own = REGEX(ImportedAt(depth, i)).value =>
                  /\ StartsWith(fragment, ImportedPattern(depth, i))
                  /\ Len(c.theBaseKeys) = 0 => fragment = ImportedPattern(depth, i)

\* A root entry whose third key is a native pattern with the flag g has
\* yielded a record, and so has a sub-entry that composed a key imported
\* from a string with the flags s and m.
C20_Witness ==
  /\ \E c \in Calls :
       /\ IsRoot(c.entry.path)
       /\ Len(c.entry.keys) = 3
       /\ c.entry.keys[3].kind = "regexp"
       /\ \E r \in RecordSetOf(c.entry.path) :
            r.keys[3] = <<"/", "\\b", "k", "0", ".", "3", "/i">>
  /\ \E c \in Calls :
       /\ Len(c.entry.path) = 2
       /\ Len(c.entry.keys) = 3
       /\ c.entry.keys[3] = REGEX(ImportedAt(1, 3)).value
       /\ Len(c.theBaseKeys) > 0
       /\ RecordSetOf(c.entry.path) # {}

(***************************************************************************)
(* Searching a text for a compiled pattern, as a RegExp with the flag "i"  *)
(* does.  Texts and words are lower-case, so the flag changes nothing.     *)
(* Only acceptance and the consumed span are modelled, so a lazy           *)
(* quantifier is a quantifier.                                             *)
(***************************************************************************)
LookOpeners == {"(?=", "(?!", "(?<=", "(?<!"}

GroupOpeners == LookOpeners \cup {"(?:"}

WordChars == {"a", "b", "w", "x", "0", "1", "2", "3", "4", "5", "6", "7", "8", "9", "_"}

RECURSIVE ParseSeq(_)
RECURSIVE ParseAlts(_)

\* One atom at the head of tokens that are not empty: the node and the
\* tokens after it.
ParseAtom(toks) ==
  LET h == Head(toks)
  IN  CASE h = "\\" -> [node |-> [t |-> "char", c |-> toks[2]], rest |-> Tail(Tail(toks))]
        [] h = "\\b" -> [node |-> [t |-> "b"], rest |-> Tail(toks)]
        [] h = "^" -> [node |-> [t |-> "bol"], rest |-> Tail(toks)]
        [] h = "[\\s\\S]" -> [node |-> [t |-> "any"], rest |-> Tail(toks)]
        [] h = "." -> [node |-> [t |-> "dot"], rest |-> Tail(toks)]
        [] h = ".*?" -> [node |-> [t |-> "star", of |-> [t |-> "dot"]], rest |-> Tail(toks)]
        [] h = "\\w*?" -> [node |-> [t |-> "star", of |-> [t |-> "word"]], rest |-> Tail(toks)]
        [] h \in GroupOpeners ->
             LET g == ParseAlts(Tail(toks))
             IN  [node |-> [t |-> IF h = "(?:" THEN "group" ELSE "look", opener |-> h,
                            alts |-> g.alts],
                  rest |-> Tail(g.rest)]
        [] OTHER -> [node |-> [t |-> "char", c |-> h], rest |-> Tail(toks)]

\* The items up to the next "|" or ")" that is not inside a group.
ParseSeq(toks) ==
  IF toks = <<>> \/ Head(toks) \in {"|", ")"} THEN [items |-> <<>>, rest |-> toks]
  ELSE LET a == ParseAtom(toks)
           starred == a.rest # <<>> /\ Head(a.rest) = "*?"
           node == IF starred THEN [t |-> "star", of |-> a.node] ELSE a.node
           s == ParseSeq(IF starred THEN Tail(a.rest) ELSE a.rest)
       IN  [items |-> <<node>> \o s.items, rest |-> s.rest]

\* The alternatives up to the ")" that closes them, or the end.
ParseAlts(toks) ==
  LET s == ParseSeq(toks)
  IN  IF s.rest # <<>> /\ Head(s.rest) = "|"
      THEN LET r == ParseAlts(Tail(s.rest))
           IN  [alts |-> <<s.items>> \o r.alts, rest |-> r.rest]
      ELSE [alts |-> <<s.items>>, rest |-> s.rest]

Parse(pattern) == ParseAlts(pattern).alts

IsWordAt(text, i) == i >= 1 /\ i <= Len(text) /\ text[i] \in WordChars

RECURSIVE Ends(_, _, _)
RECURSIVE SeqEnds(_, _, _)
RECURSIVE StarEnds(_, _, _)

\* Where a match of any of the alternatives that starts at i may end.
AltEnds(alts, text, i) == UNION {SeqEnds(alts[k], text, i) : k \in 1..Len(alts)}

StarEnds(node, text, from) ==
  LET more == from \cup UNION {Ends(node, text, j) : j \in from}
  IN  IF more = from THEN from ELSE StarEnds(node, text, more)

\* Where a match of the node that starts at i (characters consumed so far)
\* may end.
Ends(node, text, i) ==
  LET one(ok) == IF i < Len(text) /\ ok THEN {i + 1} ELSE {}
      here(ok) == IF ok THEN {i} ELSE {}
  IN  CASE node.t = "char" -> one(i < Len(text) /\ text[i + 1] = node.c)
        [] node.t = "any" -> one(TRUE)
        [] node.t = "dot" -> one(i < Len(text) /\ text[i + 1] \notin LineTerminators)
        [] node.t = "word" -> one(IsWordAt(text, i + 1))
        [] node.t = "b" -> here(IsWordAt(text, i) # IsWordAt(text, i + 1))
        [] node.t = "bol" -> here(i = 0)
        [] node.t = "star" -> StarEnds(node.of, text, {i})
        [] node.t = "group" -> AltEnds(node.alts, text, i)
        [] OTHER ->
             LET ahead == AltEnds(node.alts, text, i) # {}
                 behind == \E j \in 0..i : i \in AltEnds(node.alts, text, j)
             IN  CASE node.opener = "(?=" -> here(ahead)
                   [] node.opener = "(?!" -> here(~ahead)
                   [] node.opener = "(?<=" -> here(behind)
                   [] OTHER -> here(~behind)

SeqEnds(items, text, i) ==
  IF items = <<>> THEN {i}
  ELSE UNION {SeqEnds(Tail(items), text, j) : j \in Ends(Head(items), text, i)}

\* The spans <<start, end>> of the text that a match of the pattern consumes.
Spans(pattern, text) ==
  LET alts == Parse(pattern)
  IN  {<<i, j>> : i \in 0..Len(text), j \in 0..Len(text)} \cap
        UNION {{<<i, j>> : j \in AltEnds(alts, text, i)} : i \in 0..Len(text)}

\* RegExp.prototype.test
Test(pattern, text) == Spans(pattern, text) # {}

\* C21: the pattern compiled from AND(a, b) finds a match in a text exactly
\* when the pattern compiled from AND(b, a) does, for every text, although
\* the two patterns differ when the fragments of a and b do, and each
\* consumes a match of its own left operand.
C21_AndSymmetricInAcceptance ==
  Made("operator") /\ call.op = "AND" =>
    LET ab == outcome[1].value.pattern
        ba == AND(call.right, call.left).pattern
        reLeft == asEscaped(call.left).pattern
        reRight == asEscaped(call.right).pattern
    IN  /\ \A text \in Texts :
             /\ Test(ab, text) <=> Test(ba, text)
             /\ Spans(ab, text) \subseteq Spans(reLeft, text)
             /\ Spans(ba, text) \subseteq Spans(reRight, text)
        /\ reLeft # reRight => ab # ba

\* C21 witness: AND of two phrases whose matches overlap in one text ("ab"
\* and "ba" in "aba", rejected in both orders) and follow each other in
\* another ("abba"), where the two orders consume different spans.
C21_Witness ==
  /\ Made("operator") /\ call.op = "AND"
  /\ call.left = [kind |-> "string", word |-> <<"a", "b">>]
  /\ call.right = [kind |-> "regexp", source |-> <<"b", "a">>, flags |-> <<>>]
  /\ LET ab == outcome[1].value.pattern
         ba == AND(call.right, call.left).pattern
     IN  /\ ~Test(ab, <<"a", "b", "a">>) /\ ~Test(ba, <<"a", "b", "a">>)
         /\ Spans(ab, <<"a", "b", "b", "a">>) = {<<0, 2>>}
         /\ Spans(ba, <<"a", "b", "b", "a">>) = {<<2, 4>>}

\* The tokens that close a group; the separator of NEAR and BEYOND closes
\* its group of words in the token that also repeats it.
GroupClosers == {")", "+\\w+){"}

\* The token at j is escaped: an odd number of backslashes precedes it.
Escaped(toks, j) ==
  /\ j > 1
  /\ toks[j - 1] = "\\"
  /\ Cardinality({k \in 1..(j - 1) : \A m \in k..(j - 1) : toks[m] = "\\"}) % 2 = 1

\* The groups that are open after the token at j.
DepthAfter(toks, j) ==
  Cardinality({k \in 1..j : toks[k] \in GroupOpeners /\ ~Escaped(toks, k)})
    - Cardinality({k \in 1..j : toks[k] \in GroupClosers /\ ~Escaped(toks, k)})

\* The position of the token that closes the group the first token opens
\* (0 when none does).
GroupEnd(toks) ==
  LET ends == {j \in 2..Len(toks) : DepthAfter(toks, j) = 0}
  IN  IF ends = {} THEN 0 ELSE CHOOSE j \in ends : \A k \in ends : j <= k

\* The alternatives of a group's content: the tokens between the "|" that
\* are in no inner group.
Alternatives(toks) ==
  LET cuts == {0, Len(toks) + 1}
                \cup {j \in 1..Len(toks) :
                        toks[j] = "|" /\ ~Escaped(toks, j) /\ DepthAfter(toks, j) = 0}
  IN  {SubSeq(toks, a + 1, b - 1) :
         <<a, b>> \in {c \in cuts \X cuts :
                         c[1] < c[2] /\ \A k \in cuts : ~(c[1] < k /\ k < c[2])}}

\* The tokens are nothing but lookahead and lookbehind groups, each on its
\* own or as an alternative of a non-capturing group.
RECURSIVE ZeroWidth(_)
ZeroWidth(toks) ==
  IF toks = <<>> THEN TRUE
  ELSE LET n == GroupEnd(toks)
       IN  /\ Head(toks) \in GroupOpeners
           /\ n > 0
           /\ toks[n] = ")"
           /\ Head(toks) = "(?:" =>
                \A alt \in Alternatives(SubSeq(toks, 2, n - 1)) :
                  alt # <<>> /\ ZeroWidth(alt)
           /\ ZeroWidth(SubSeq(toks, n + 1, Len(toks)))

\* The pattern is the fragment of the left operand followed only by
\* lookarounds, which hold the fragment of the right operand.
LeftThenLookarounds(pattern, left, right) ==
  LET reLeft == asEscaped(left).pattern
      reRight == asEscaped(right).pattern
      rest == SubSeq(pattern, Len(reLeft) + 1, Len(pattern))
  IN  /\ StartsWith(pattern, reLeft)
      /\ rest # <<>>
      /\ ZeroWidth(rest)
      /\ Occurs(reRight, rest)

\* C22: every binary operator (AND, EXCLUDING, WITH, WITHOUT and the
\* matchers that NEAR and BEYOND return) compiles to the fragment of its left
\* operand followed only by zero-width lookahead and lookbehind groups: the
\* fragment of the right operand is inside the lookarounds, and a match
\* consumes a span of the text that the left phrase alone matches.
C22_OperatorsOnlyLookAround ==
  /\ Made("evalExp") =>
       LeftThenLookarounds(outcome[1].value.pattern, call.exp.left, call.exp.right)
  /\ Made("operator") =>
       /\ LeftThenLookarounds(outcome[1].value.pattern, call.left, call.right)
       /\ \A text \in Texts :
            Spans(outcome[1].value.pattern, text)
              \subseteq Spans(asEscaped(call.left).pattern, text)
  /\ (Made("NEAR") \/ Made("BEYOND")) /\ ~outcome[1].threw =>
       \A left \in Atoms, right \in Atoms :
         LeftThenLookarounds(ApplyMatcher(outcome[1].value, left, right).pattern,
                             left, right)

\* C22 witness: EXCLUDING of two phrases that follow each other in a text:
\* the pattern is the left fragment and two negative lookarounds, and the
\* right phrase, present in the text, is in no span the pattern consumes.
C22_Witness ==
  /\ Made("operator") /\ call.op = "EXCLUDING"
  /\ call.left = [kind |-> "string", word |-> <<"a">>]
  /\ call.right = [kind |-> "regexp", source |-> <<"b">>, flags |-> <<>>]
  /\ outcome[1].value.pattern
       = <<"\\b", "a", "(?!", "[\\s\\S]", "*?", "b", ")",
           "(?<!", "b", "[\\s\\S]", "*?", "\\b", "a", ")">>
  /\ Spans(outcome[1].value.pattern, <<"a", " ", "a">>) = {<<0, 1>>, <<2, 3>>}
  /\ Spans(outcome[1].value.pattern, <<"a", " ", "b">>) = {}
  /\ Test(<<"b">>, <<"a", " ", "b">>)

\* The overrides of obj.key other than `field`, as apply returns them for an
\* instance that was applied before: nothing when none is left.
OtherOverrides(obj, key, field) ==
  IF key \in DOMAIN obj /\ DOMAIN obj[key] \ {field} # {}
  THEN key :> [k \in DOMAIN obj[key] \ {field} |-> obj[key][k]]
  ELSE EmptyObj

\* The part of a config that is its context and entry overrides.
OverridesOf(obj) == [k \in DOMAIN obj \cap {"context", "entry"} |-> obj[k]]

\* C23: apply of a DepthDelta instance that is on the strategyStack returns
\* its configuration without context.budgetPriority and entry.searchRange,
\* every other context or entry override kept and an override object left
\* empty dropped altogether; apply of an instance that is not on the stack
\* returns the context and entry overrides whole.
C23_ApplyStripsDeltaTargets ==
  Applied("apply") =>
    LET own == Instances[call.self].config
        out == outcome[1].value
        applied == \E i \in 1..Len(call.strategyStack) : call.strategyStack[i] = call.self
    IN  IF applied
        THEN OverridesOf(out) = OtherOverrides(own, "context", "budgetPriority")
                                  @@ OtherOverrides(own, "entry", "searchRange")
        ELSE OverridesOf(out) = OverridesOf(own)

\* C23 witness: apply of deltaS below itself returns its prefix override
\* without the budgetPriority, and no entry overrides at all, as searchRange
\* was the only one.
C23_Witness ==
  /\ Applied("apply")
  /\ call.self = "deltaS"
  /\ call.strategyStack = <<"deltaS", "fixedA">>
  /\ Instances["deltaS"].config.context.budgetPriority = 450
  /\ Instances["deltaS"].config.entry.searchRange = 1024
  /\ outcome[1].value.context = ("prefix" :> <<"- ">>)
  /\ "entry" \notin DOMAIN outcome[1].value

\* The strategies on the stack that are DepthDelta strategies and configure
\* the delta, by their position.
Definers(strategyStack, delta) ==
  {i \in 1..Len(strategyStack) :
     /\ Instances[strategyStack[i]].type = "DepthDelta"
     /\ delta \in DOMAIN Instances[strategyStack[i]].config}

\* The delta as the claim resolves it: a one-element sequence, or empty when
\* neither the instance nor a DepthDelta ancestor configures it.
ResolvedDelta(self, strategyStack, delta) ==
  LET definers == Definers(strategyStack, delta)
  IN  IF delta \in DOMAIN Instances[self].config THEN <<Instances[self].config[delta]>>
      ELSE IF definers # {}
           THEN LET last == CHOOSE i \in definers : \A j \in definers : j <= i
                IN  <<Instances[strategyStack[last]].config[delta]>>
           ELSE <<>>

\* C26: apply of a DepthDelta instance resolves priorityDelta and searchDelta
\* each on its own: the value the instance configures, otherwise the value
\* configured by the most recently pushed DepthDelta strategy on the stack
\* that configures it, strategies of other types ignored; when nobody
\* configures a delta it stays undefined, and extend uses the default of
\* the instance itself, never the default of an ancestor.
C26_DeltaInheritance ==
  Applied("apply") =>
    LET out == outcome[1].value
        state == StateOf(call.strategyStack, call.searchRange)
        next == DepthDeltaExtend(call.self, state, out)
        theDefaults == Instances[call.self].theDefaults
    IN  /\ \A delta \in {"priorityDelta", "searchDelta"} :
             LET resolved == ResolvedDelta(call.self, call.strategyStack, delta)
             IN  IF resolved = <<>> THEN delta \notin DOMAIN out
                 ELSE delta \in DOMAIN out /\ out[delta] = resolved[1]
        /\ next.context.budgetPriority
             = state.context.budgetPriority
                 + (IF "priorityDelta" \in DOMAIN out THEN out.priorityDelta
                    ELSE theDefaults.priorityDelta)
        /\ next.entry.searchRange
             = state.entry.searchRange
                 + (IF "searchDelta" \in DOMAIN out THEN out.searchDelta
                    ELSE theDefaults.searchDelta)

\* C26 witness: apply of deltaA, which configures no delta, below deltaC
\* (both deltas) and deltaP (priorityDelta only): the priorityDelta is that
\* of deltaP, pushed last, and the searchDelta that of deltaC.
C26_Witness ==
  /\ Applied("apply")
  /\ call.self = "deltaA"
  /\ call.strategyStack = <<"deltaC", "deltaP">>
  /\ outcome[1].value.priorityDelta = 2
  /\ outcome[1].value.searchDelta = 512

\* C27: extend never takes the searchRange of the sub-entries below 512 with
\* a negative searchDelta, nor above 10000 with a positive one.
C27_SearchRangeClamped ==
  Applied("extend") =>
    LET state == StateOf(call.strategyStack, call.searchRange)
        curConfig == DepthDeltaApply(call.self, state, Instances[call.self].config)
        searchDelta == IF "searchDelta" \in DOMAIN curConfig THEN curConfig.searchDelta
                       ELSE Instances[call.self].theDefaults.searchDelta
        searchRange == outcome[1].value.entry.searchRange
    IN  /\ searchDelta < 0 => searchRange >= 512
        /\ searchDelta > 0 => searchRange <= 10000

\* The strategies that configured the state and the records of a call: the
\* builder's, those of the ancestors and the one the entry resolved.
StrategiesOf(c) ==
  {c.strategy} \cup {c.state.strategyStack[i] : i \in 1..Len(c.state.strategyStack)}
    \cup (IF config.strategy = "none" THEN {} ELSE {config.strategy})

\* C24: forced activation is not inherited.  When a node whose effective
\* keys are empty has a sub-entry whose effective keys are not, and no
\* strategy configures forceActivation, the sub-entry is processed with a
\* state whose forceActivation is false and every record of the sub-entry
\* has forceActivation = false.
C24_ForcedActivationNotInherited ==
  \A c \in Calls :
    ~IsRoot(c.entry.path) =>
      LET parent == CallOf(ParentOf(c.entry.path))
      IN  ( /\ Len(parent.keys) = 0
            /\ Len(c.keys) > 0
            /\ \A s \in StrategiesOf(c) : ~SetsForceActivation(s) ) =>
            /\ c.state.entry.forceActivation = FALSE
            /\ \A i \in 1..Len(c.byText.entries) :
                 c.byText.entries[i].forceActivation = FALSE

\* C24 witness: a root entry without keys yielded a forced record, and its
\* sub-entry with a key of its own yielded a record that is not forced.
C24_Witness ==
  \E c \in Calls :
    /\ ~IsRoot(c.entry.path)
    /\ Len(CallOf(ParentOf(c.entry.path)).keys) = 0
    /\ Len(c.keys) > 0
    /\ \A s \in StrategiesOf(c) : ~SetsForceActivation(s)
    /\ \E r \in RecordSetOf(ParentOf(c.entry.path)) : r.forceActivation = TRUE
    /\ \E r \in RecordSetOf(c.entry.path) : r.forceActivation = FALSE

\* The state of a yieldEntries call for the entry at `path`, made or
\* waiting to be made, is the state the claim describes: the depth and the
\* stack count the ancestors, and the stack holds their resolved strategies.
StateAtDepth(path, state) ==
  LET k == Len(path) - 1
  IN  /\ state.depth = k
      /\ Len(state.strategyStack) = k
      /\ \A i \in 1..k : state.strategyStack[i] = CallOf(SubSeq(path, 1, i)).strategy

\* The yieldEntries calls waiting to be made.
Waiting == {stack[i] : i \in {j \in 1..Len(stack) : stack[j].kind = "visit"}}

\* C25: a node with k ancestors is processed with state.depth = k and a
\* strategyStack of k elements, the i-th being the strategy that the
\* ancestor at depth i resolved (depth 0 and an empty stack for a root); the
\* node's own strategy is only in the state of its sub-entries, and all
\* siblings are processed with one and the same state.
C25_TraversalState ==
  /\ \A c \in Calls : StateAtDepth(c.entry.path, c.state)
  /\ \A f \in Waiting : StateAtDepth(f.path, f.state)
  /\ \A c \in Calls, d \in Calls :
       ParentOf(c.entry.path) = ParentOf(d.entry.path) => c.state = d.state
  /\ \A c \in Calls, f \in Waiting :
       /\ ParentOf(c.entry.path) = ParentOf(f.path) => c.state = f.state
       /\ ParentOf(f.path) = c.entry.path =>
            f.state.strategyStack = Append(c.state.strategyStack, c.strategy)

\* C25 witness: an entry two levels down, below ancestors that resolved
\* different strategies, has been processed with a stack of those two, and
\* its sub-entry is waiting with a stack of three that ends in the entry's
\* own strategy.
C25_Witness ==
  \E c \in Calls :
    /\ Len(c.entry.path) = 3
    /\ c.state.depth = 2
    /\ c.state.strategyStack[1] # c.state.strategyStack[2]
    /\ c.strategy # c.state.strategyStack[2]
    /\ Len(c.state.strategyStack) = 2
    /\ \E f \in Waiting :
         /\ ParentOf(f.path) = c.entry.path
         /\ f.state.depth = 3
         /\ f.state.strategyStack = Append(c.state.strategyStack, c.strategy)

\* The effective keys of the parent of the entry at `path`: the keys the
\* parent composed, and no keys above a root entry.
ParentKeys(path) == IF IsRoot(path) THEN <<>> ELSE CallOf(ParentOf(path)).composedKeys

\* C28: the keys an entry inherits are the effective keys of its parent when
\* it gives no baseKeys, what its function returns for the effective keys of
\* the parent (for the empty list at a root entry) when baseKeys is a
\* function, and the given list when baseKeys is a list; the override is
\* the entry's alone: the keys of the parent's records stay the keys the
\* parent composed, and every sibling inherits by its own baseKeys.
C28_InheritedKeys ==
  \A c \in Calls :
    LET given == tree[c.entry.path].baseKeys
    IN  /\ c.theBaseKeys =
             CASE given.kind = "absent" -> ParentKeys(c.entry.path)
               [] given.kind = "fn" -> ApplyBaseKeysFn(given.fn, ParentKeys(c.entry.path))
               [] OTHER -> given.list
        /\ c.composedKeys = yieldChildKeys(c.theBaseKeys, c.baseOp, tree[c.entry.path].keys)
        /\ \A r \in RecordSetOf(c.entry.path) :
             r.keys = [i \in 1..Len(c.composedKeys) |-> toNAI(asEscaped(c.composedKeys[i]))]

\* C28 witness: below a parent with two effective keys, one sub-entry gave a
\* function and inherited one key, its sibling gave nothing and inherited
\* both, and the parent's record was yielded with both; a root entry gave a
\* function, which got the empty list.
C28_Witness ==
  /\ \E c \in Calls, d \in Calls :
       /\ ~IsRoot(c.entry.path)
       /\ ParentOf(c.entry.path) = ParentOf(d.entry.path)
       /\ tree[c.entry.path].baseKeys.fn = "dropFirst"
       /\ tree[d.entry.path].baseKeys.kind = "absent"
       /\ Len(ParentKeys(c.entry.path)) = 2
       /\ c.theBaseKeys = Tail(ParentKeys(c.entry.path))
       /\ d.theBaseKeys = ParentKeys(c.entry.path)
       /\ \E r \in RecordSetOf(ParentOf(c.entry.path)) : Len(r.keys) = 2
  /\ \E c \in Calls :
       /\ IsRoot(c.entry.path)
       /\ tree[c.entry.path].baseKeys.fn = "addKey"
       /\ c.theBaseKeys = <<ExtraKey>>

\* The operator the entry at `path` gets when it gives no baseOp.
DefaultOp(path) ==
  IF IsRoot(path) THEN (IF config.subOp # "none" THEN config.subOp ELSE "AND")
  ELSE CallOf(ParentOf(path)).subOp

\* C29: the baseOp of an entry is its own when given, otherwise the subOp of
\* its parent (AND for a root entry, unless the builder config gives a
\* subOp); its subOp is its own when given, otherwise its resolved baseOp.
C29_OperatorDefaults ==
  \A c \in Calls :
    LET given == tree[c.entry.path]
    IN  /\ c.baseOp = IF given.baseOp # "none" THEN given.baseOp
                      ELSE DefaultOp(c.entry.path)
        /\ c.subOp = IF given.subOp # "none" THEN given.subOp ELSE c.baseOp

\* C29 witness: under a builder config with a subOp, a root entry without
\* operators resolved that subOp; its sub-entry overrode baseOp and set no
\* subOp, and the sub-entry below that one, without operators, resolved the
\* overridden operator.
C29_Witness ==
  \E c \in Calls :
    /\ Len(c.entry.path) = 3
    /\ config.subOp = "WITH"
    /\ tree[RootOf(c.entry.path)].baseOp = "none"
    /\ tree[RootOf(c.entry.path)].subOp = "none"
    /\ CallOf(RootOf(c.entry.path)).baseOp = "WITH"
    /\ tree[ParentOf(c.entry.path)].baseOp = "EXCLUDING"
    /\ tree[ParentOf(c.entry.path)].subOp = "none"
    /\ tree[c.entry.path].baseOp = "none"
    /\ c.baseOp = "EXCLUDING"

\* The sub-entries below the entry at `path` that inherit its strategy:
\* neither they nor an entry in between gives a strategy.
Inherits(path, below) ==
  /\ ProperPrefix(path, below)
  /\ \A n \in (Len(path) + 1)..Len(below) : tree[SubSeq(below, 1, n)].strategy = "none"

\* The strategy is one of the presets of scaffold.js.
IsPreset(strategy) == strategy = "concept"

\* C30: a preset is a DepthDelta strategy whose default deltas are 0: when
\* the entry that resolves a preset configures no delta and no DepthDelta
\* strategy on the stack configures one, the records of the sub-entries
\* that inherit the preset have the budgetPriority and the searchRange of
\* the records of that entry, at every depth.
C30_PresetsAreFlat ==
  /\ \A id \in DOMAIN Instances :
       IsPreset(id) =>
         /\ Instances[id].type = "DepthDelta"
         /\ Instances[id].theDefaults = [priorityDelta |-> 0, searchDelta |-> 0]
  /\ \A c \in Calls, d \in Calls :
       ( /\ IsPreset(c.strategy)
         /\ Inherits(c.entry.path, d.entry.path)
         /\ \A delta \in {"priorityDelta", "searchDelta"} :
              /\ delta \notin DOMAIN Instances[c.strategy].config
              /\ Definers(c.state.strategyStack, delta) = {} ) =>
         /\ d.strategy = c.strategy
         /\ d.byText.context.budgetPriority = c.byText.context.budgetPriority
         /\ \A i \in 1..Len(c.byText.entries), j \in 1..Len(d.byText.entries) :
              /\ d.byText.entries[j].searchRange = c.byText.entries[i].searchRange
              /\ d.byText.entries[j].contextConfig.budgetPriority
                   = c.byText.entries[i].contextConfig.budgetPriority

\* C30 witness: a root entry with the Concept preset and two levels of
\* sub-entries without a strategy: the record of the entry two levels down
\* was yielded with the budgetPriority 800 and the searchRange 2000 of the
\* root entry's record.
C30_Witness ==
  \E c \in Calls, d \in Calls :
    /\ IsRoot(c.entry.path)
    /\ tree[c.entry.path].strategy = "concept"
    /\ Len(d.entry.path) = 3
    /\ Inherits(c.entry.path, d.entry.path)
    /\ \E r \in RecordSetOf(c.entry.path) :
         r.searchRange = 2000 /\ r.contextConfig.budgetPriority = 800
    /\ \E r \in RecordSetOf(d.entry.path) :
         r.searchRange = 2000 /\ r.contextConfig.budgetPriority = 800

====
